---- MODULE Spec2Model ----
(***************************************************************************)
(* Model of the Solunaris companion bots:                                  *)
(*   wb = solunaris_webhook_bot.py  (calculate_time, boundary-jump clock)  *)
(*   tb = solunaris_time_bot.py     (calculate_time_snapshot, minute loop) *)
(*                                                                         *)
(* Real time and the two rates are Python floats (IEEE-754 doubles).  A    *)
(* double is modelled as a fixed-point number: a tuple of NL limbs in base *)
(* LIMB (least significant first) counting units of 2^-50 second, which is *)
(* the unit in the last place of both rate constants.  Every float         *)
(* operation of the source is the exact operation followed by Round53,     *)
(* rounding to 53 significant bits, ties to even.                          *)
(*                                                                         *)
(* An intermediate value that is read more than once is bound as the       *)
(* element of a singleton set, CHOOSE out \in {e(v) : v \in {value}} : TRUE, *)
(* which computes it once (a LET is recomputed at each use).              *)
(***************************************************************************)
EXTENDS Integers, Sequences, FiniteSets, TLC

\* ---------------------------------------------------------------------
\* Fixed-point doubles
\* ---------------------------------------------------------------------
LIMB == 1048576          \* 2^20
LIMB_BITS == 20
MANT_BITS == 53          \* significand width of a double
FRAC_BITS == 56          \* fraction bits kept of a quotient of minutes

Pow2(n) == 2 ^ n

Zero == <<0, 0, 0, 0>>

\* carry (or borrow) propagation over four limbs
Norm4(a1, a2, a3, a4) ==
    LET b2 == a2 + (a1 \div LIMB)
        b3 == a3 + (b2 \div LIMB)
        b4 == a4 + (b3 \div LIMB)
    IN  <<a1 % LIMB, b2 % LIMB, b3 % LIMB, b4>>

FromInt(n) == Norm4(n, 0, 0, 0)

Add(a, b) == Norm4(a[1] + b[1], a[2] + b[2], a[3] + b[3], a[4] + b[4])

\* a - b for a >= b
Sub(a, b) == Norm4(a[1] - b[1], a[2] - b[2], a[3] - b[3], a[4] - b[4])

\* a * k for a small natural k (k <= 1440)
MulSmall(a, k) == Norm4(a[1] * k, a[2] * k, a[3] * k, a[4] * k)

\* -1, 0, 1 as a < b, a = b, a > b
Cmp(a, b) ==
    IF a[4] # b[4] THEN (IF a[4] < b[4] THEN -1 ELSE 1)
    ELSE IF a[3] # b[3] THEN (IF a[3] < b[3] THEN -1 ELSE 1)
    ELSE IF a[2] # b[2] THEN (IF a[2] < b[2] THEN -1 ELSE 1)
    ELSE IF a[1] # b[1] THEN (IF a[1] < b[1] THEN -1 ELSE 1)
    ELSE 0

RECURSIVE BitLenInt(_)
BitLenInt(x) == IF x = 0 THEN 0 ELSE 1 + BitLenInt(x \div 2)

BitLen(a) ==
    IF a[4] # 0 THEN 3 * LIMB_BITS + BitLenInt(a[4])
    ELSE IF a[3] # 0 THEN 2 * LIMB_BITS + BitLenInt(a[3])
    ELSE IF a[2] # 0 THEN LIMB_BITS + BitLenInt(a[2])
    ELSE BitLenInt(a[1])

\* bit d (0 = least significant) of a
Bit(a, d) == (a[(d \div LIMB_BITS) + 1] \div Pow2(d % LIMB_BITS)) % 2

\* the low d bits of a, d <= 27
LowBits(a, d) ==
    IF d <= LIMB_BITS THEN a[1] % Pow2(d)
    ELSE a[1] + (a[2] % Pow2(d - LIMB_BITS)) * LIMB

\* round to nearest double, ties to even; sticky says that the exact value
\* lies strictly between a and a + 1 unit
Round53(a, sticky) ==
    CHOOSE out \in
        {IF drop <= 0 THEN av
         ELSE LET low == LowBits(av, drop)
                  half == Pow2(drop - 1)
                  up == \/ low > half
                        \/ low = half /\ (sticky \/ Bit(av, drop) = 1)
                  trunc == Sub(av, FromInt(low))
              IN  IF up THEN Add(trunc, FromInt(Pow2(drop))) ELSE trunc :
         av \in {a}, drop \in {BitLen(a) - MANT_BITS}} : TRUE

\* float product of a double and a small natural number
FMul(a, k) == Round53(MulSmall(a, k), FALSE)

\* float difference a - b of two non-negative doubles, a >= b
FSub(a, b) == Round53(Sub(a, b), FALSE)

\* n whole seconds as a double
Seconds(n) == Norm4(0, 0, (n % 1024) * 1024, n \div 1024)

\* ---------------------------------------------------------------------
\* Configuration of both bots
\* ---------------------------------------------------------------------
\* 4.7666667 = 5366789593479838 * 2^-50
DAY_SECONDS_PER_INGAME_MINUTE == <<899742, 69940, 4881, 0>>
\* 4.045 = 4554265123178414 * 2^-50
NIGHT_SECONDS_PER_INGAME_MINUTE == <<83886, 83886, 4142, 0>>
DAY_START_MIN == 5 * 60 + 30
DAY_END_MIN == 17 * 60 + 30

DAY_SPM == <<899742, 69940, 4881, 0>>
NIGHT_SPM == <<83886, 83886, 4142, 0>>
SUNRISE == 5 * 60 + 30
SUNSET == 17 * 60 + 30

\* a signed double: sign and magnitude
Signed(a) == [neg |-> FALSE, mag |-> a]

\* x > 0
Positive(x) == ~x.neg /\ x.mag # Zero

\* float difference x - b of a signed double x and a double b >= 0
FSubSigned(x, b) ==
    IF x.neg THEN [neg |-> TRUE, mag |-> Round53(Add(x.mag, b), FALSE)]
    ELSE IF Cmp(x.mag, b) >= 0 THEN [neg |-> FALSE, mag |-> FSub(x.mag, b)]
    ELSE [neg |-> TRUE, mag |-> FSub(b, x.mag)]

\* one step of restoring division of s.rem by d at quotient bit s.i
DivIntStep(s, d) ==
    LET shifted == MulSmall(d, Pow2(s.i))
    IN  IF Cmp(s.rem, shifted) >= 0
        THEN [rem |-> Sub(s.rem, shifted), i |-> s.i - 1, acc |-> s.acc + Pow2(s.i)]
        ELSE [rem |-> s.rem, i |-> s.i - 1, acc |-> s.acc]

\* at most 2^k steps, down to quotient bit 0
RECURSIVE DivIntLoop(_, _, _)
DivIntLoop(k, s, d) ==
    IF s.i < 0 THEN s
    ELSE IF k = 0 THEN DivIntStep(s, d)
    ELSE CHOOSE fin_state \in {DivIntLoop(k - 1, half_way, d) :
                         half_way \in {DivIntLoop(k - 1, s, d)}} : TRUE

\* integer part and remainder of rem / d, quotient below 2^11
DivInt(rem, d) == DivIntLoop(4, [rem |-> rem, i |-> 10, acc |-> 0], d)

\* the next fraction bit of the quotient: s.rem < d, s.i bits to go
DivFracStep(s, d) ==
    LET r2 == Add(s.rem, s.rem)
        a2 == Add(s.acc, s.acc)
    IN  IF Cmp(r2, d) >= 0
        THEN [rem |-> Sub(r2, d), i |-> s.i - 1, acc |-> Add(a2, FromInt(1))]
        ELSE [rem |-> r2, i |-> s.i - 1, acc |-> a2]

RECURSIVE DivFracLoop(_, _, _)
DivFracLoop(k, s, d) ==
    IF s.i = 0 THEN s
    ELSE IF k = 0 THEN DivFracStep(s, d)
    ELSE CHOOSE fin_state \in {DivFracLoop(k - 1, half_way, d) :
                         half_way \in {DivFracLoop(k - 1, s, d)}} : TRUE

\* FRAC_BITS fraction bits of rem / d and the remainder, rem < d
DivFrac(rem, d) == DivFracLoop(6, [rem |-> rem, i |-> FRAC_BITS, acc |-> Zero], d)

\* int(m + r / d) as Python computes it for an integral float m >= 0 and
\* doubles r >= 0, d > 0 with r / d < 2048: the quotient is rounded to a
\* double, the sum is rounded to a double, int() truncates.  Minutes are
\* counted in units of 2^-FRAC_BITS.
FloorAddDiv(m, r, d) ==
    CHOOSE out \in
        {CHOOSE out2 \in
            {LET inexact == qf.rem # Zero
                 exact == Add(Norm4(0, 0, qi.acc * Pow2(16), 0), qf.acc)
                 quot == Round53(exact, inexact)
                 inexact2 == inexact /\ BitLen(exact) <= MANT_BITS
                 total == Round53(Add(Norm4(0, 0, m * Pow2(16), 0), quot),
                                  inexact2)
             IN  (total[3] \div Pow2(16)) + total[4] * Pow2(4) :
             qf \in {DivFrac(qi.rem, d)}} : TRUE :
         qi \in {DivInt(r, d)}} : TRUE

\* ---------------------------------------------------------------------
\* Webhook bot: TIME CALCULATION (PIECEWISE DAY/NIGHT)
\* ---------------------------------------------------------------------
SAFETY_LIMIT == 200000

\* a Python loop is run for at most 2^LoopDepth iterations
LoopDepth == 18

\* Python None; also what `not state` accepts for a missing calibration
None == [none |-> TRUE]

minute_of_day(hour, minute) == hour * 60 + minute

\* is_day with sunset counted as day
is_day_inclusive(minute_of_day_int) ==
    DAY_START_MIN <= minute_of_day_int /\ minute_of_day_int <= DAY_END_MIN

is_day(minute_of_day_int) ==
    DAY_START_MIN <= minute_of_day_int /\ minute_of_day_int < DAY_END_MIN

seconds_per_minute(minute_of_day_int) ==
    IF is_day(minute_of_day_int) THEN DAY_SECONDS_PER_INGAME_MINUTE
    ELSE NIGHT_SECONDS_PER_INGAME_MINUTE

\* minute_of_day_float is integral whenever this is called
next_boundary_total_minutes(day, minute_of_day_float) ==
    LET mod == minute_of_day_float % 1440
        total_now == (day - 1) * 1440 + minute_of_day_float
    IN  IF is_day(mod)
        THEN LET boundary == (day - 1) * 1440 + DAY_END_MIN
             IN  IF boundary <= total_now THEN day * 1440 + DAY_END_MIN
                 ELSE boundary
        ELSE LET boundary == IF mod < DAY_START_MIN
                             THEN (day - 1) * 1440 + DAY_START_MIN
                             ELSE day * 1440 + DAY_START_MIN
             IN  IF boundary <= total_now THEN boundary + 1440 ELSE boundary

\* normalize without the day carry: the minute wraps and the day stays
normalize_no_carry(day, minute_float) == <<day, minute_float % 1440>>

\* while minute_float >= 1440.0: minute_float -= 1440.0; day += 1
normalize(day, minute_float) ==
    <<day + (minute_float \div 1440), minute_float % 1440>>

\* mins_until_boundary = max(0.0, boundary_total - current_total) in state s
\* of the for loop; minute_float is integral whenever this is computed
mins_until_boundary(s) ==
    LET boundary_total == next_boundary_total_minutes(s.day, s.minute_float)
        current_total == (s.day - 1) * 1440 + s.minute_float
    IN  IF boundary_total - current_total > 0
        THEN boundary_total - current_total ELSE 0

\* the body of the for loop with spm_ the value of
\* seconds_per_minute(mod); i counts the iterations made.  minute_float is
\* integral until the partial move, after which remaining is 0 and only its
\* integer part is read
advance_body_at(s, spm_) ==
    CHOOSE out \in
        {IF secs_until_boundary # Zero
            /\ Cmp(s.remaining.mag, secs_until_boundary) >= 0
         THEN CHOOSE out2 \in
                  {[i |-> s.i + 1, day |-> jumped[1],
                    minute_float |-> jumped[2],
                    remaining |->
                        FSubSigned(s.remaining, secs_until_boundary)] :
                   jumped \in {normalize(s.day,
                                  s.minute_float + mins_until_boundary(s))}} :
                  TRUE
         ELSE CHOOSE out2 \in
                  {[i |-> s.i + 1, day |-> moved[1],
                    minute_float |-> moved[2], remaining |-> Signed(Zero)] :
                   moved \in {normalize(s.day,
                                 FloorAddDiv(s.minute_float,
                                             s.remaining.mag, spm_))}} :
                  TRUE :
         secs_until_boundary \in {FMul(spm_, mins_until_boundary(s))}} : TRUE

\* the body of the for loop
advance_body(s) == advance_body_at(s, seconds_per_minute(s.minute_float % 1440))

\* for _ in range(200000): if remaining <= 0: break
advance_done(s) == s.i >= SAFETY_LIMIT \/ ~Positive(s.remaining)

\* runs the loop for at most 2^k further iterations
RECURSIVE advance_loop(_, _)
advance_loop(k, s) ==
    IF advance_done(s) THEN s
    ELSE IF k = 0 THEN advance_body(s)
    ELSE CHOOSE fin_state \in {advance_loop(k - 1, half_way) :
                         half_way \in {advance_loop(k - 1, s)}} : TRUE

\* <<day, minute_of_day>>
advance_minutes_piecewise(start_day, start_minute_of_day, elapsed_real_seconds) ==
    CHOOSE out \in
        {CHOOSE out2 \in
            {<<fin.day, fin.minute_float % 1440>> :
             fin \in {advance_loop(LoopDepth, start)}} : TRUE :
         start \in {[i |-> 0, day |-> start_day,
                     minute_float |-> start_minute_of_day,
                     remaining |-> elapsed_real_seconds]}} : TRUE

\* roll_year rolling over on day 365 already
RECURSIVE roll_year_ge(_, _)
roll_year_ge(day, year) ==
    IF day >= 365 THEN roll_year_ge(day - 365, year + 1) ELSE <<day, year>>

\* <<day, year>>
RECURSIVE roll_year(_, _)
roll_year(day, year) ==
    IF day > 365 THEN roll_year(day - 365, year + 1) ELSE <<day, year>>

\* st is the calibration (or None), elapsed_real = time.time() - real_epoch
calculate_time(st, elapsed_real) ==
    IF st = None THEN None
    ELSE CHOOSE out \in
             {LET day_now == adv[1]
                  mod_min == adv[2]
              IN  CHOOSE out2 \in
                      {[day |-> rolled[1], year |-> rolled[2],
                        hour |-> mod_min \div 60, minute |-> mod_min % 60,
                        minute_of_day |-> mod_min, is_day |-> is_day(mod_min)] :
                       rolled \in {roll_year(day_now, st.year)}} : TRUE :
              adv \in {advance_minutes_piecewise(
                           st.day, st.hour * 60 + st.minute, elapsed_real)}} :
             TRUE

\* ---------------------------------------------------------------------
\* Time bot: TIME LOGIC
\* ---------------------------------------------------------------------
is_day_tb(minute_of_day_) == SUNRISE <= minute_of_day_ /\ minute_of_day_ < SUNSET

spm(minute_of_day_) == IF is_day_tb(minute_of_day_) THEN DAY_SPM ELSE NIGHT_SPM

\* the body of `while remaining > 0` with spm_ the value of
\* spm(minute_of_day): one in-game minute per iteration
snapshot_body_at(s, spm_) ==
    LET left == FSubSigned(s.remaining, spm_)
        m1 == s.minute_of_day + 1
    IN  IF m1 >= 1440
        THEN IF s.day + 1 > 365
             THEN [remaining |-> left, minute_of_day |-> 0,
                   day |-> 1, year |-> s.year + 1]
             ELSE [remaining |-> left, minute_of_day |-> 0,
                   day |-> s.day + 1, year |-> s.year]
        ELSE [remaining |-> left, minute_of_day |-> m1,
              day |-> s.day, year |-> s.year]

\* the body of the loop without the year rollover
snapshot_body_no_year(s) ==
    LET left == FSubSigned(s.remaining, spm(s.minute_of_day))
        m1 == s.minute_of_day + 1
    IN  IF m1 >= 1440
        THEN [remaining |-> left, minute_of_day |-> 0,
              day |-> s.day + 1, year |-> s.year]
        ELSE [remaining |-> left, minute_of_day |-> m1,
              day |-> s.day, year |-> s.year]

\* the body of `while remaining > 0`
snapshot_body(s) == snapshot_body_at(s, spm(s.minute_of_day))

\* runs the while loop for at most 2^k further iterations
RECURSIVE snapshot_loop(_, _)
snapshot_loop(k, s) ==
    IF ~Positive(s.remaining) THEN s
    ELSE IF k = 0 THEN snapshot_body(s)
    ELSE CHOOSE fin_state \in {snapshot_loop(k - 1, half_way) :
                         half_way \in {snapshot_loop(k - 1, s)}} : TRUE

calculate_time_snapshot(st, elapsed) ==
    IF st = None THEN None
    ELSE CHOOSE out \in
             {CHOOSE out2 \in
                 {LET mod_ == res.minute_of_day
                  IN  [year |-> res.year, day |-> res.day,
                       hour |-> mod_ \div 60, minute |-> mod_ % 60,
                       minute_of_day |-> mod_, is_day |-> is_day_tb(mod_)] :
                  res \in {snapshot_loop(LoopDepth, start)}} : TRUE :
              start \in {[remaining |-> elapsed,
                          minute_of_day |-> st.hour * 60 + st.minute,
                          day |-> st.day, year |-> st.year]}} : TRUE

\* ---------------------------------------------------------------------
\* State
\* ---------------------------------------------------------------------
VARIABLES
    now,          \* time.time(), seconds since the origin of the model
    state_wb,     \* webhook bot: global `state` (calibration or None)
    file_wb,      \* webhook bot: contents of state.json
    state_tb,     \* time bot: global `state`
    file_tb,      \* time bot: state.json["time_state"]
    info,         \* webhook bot: result of the latest calculate_time()
    snap,         \* time bot: result of the latest calculate_time_snapshot()
    calls,        \* clock queries made at the instant `now`, counted to 2
    bot,          \* the program that runs: "wb" or "tb"
    config,       \* webhook bot: which optional channel ids are configured
    mem_wb,       \* webhook bot: module globals of the webhook and announcer
    mem_tb,       \* time bot: message_ids and the RUNTIME STATE globals
    last,         \* the handler that ran last, with its arguments
    reply,        \* the reply of the latest slash command
    effects,      \* requests issued by the handler that ran last
    rates,        \* the rates of the CONFIG section the program runs with
    run,          \* the clock query in progress, one loop iteration at a time
    rcon,         \* the RCON call in progress and its TCP connection
    wire,         \* bytes given to the RCON code and what it made of them
    tasks,        \* the two background tasks on the event loop
    pub,          \* Discord's side of the time webhook and what was published
    vc            \* the status publication: players count and channel name

clock_vars == <<now, state_wb, file_wb, state_tb, file_tb, info, snap, calls>>

bot_vars == <<bot, config, mem_wb, mem_tb, last, reply, effects>>

config_vars == <<rates, run>>

rcon_vars == <<rcon>>

io_vars == <<wire, tasks>>

pub_vars == <<pub, vc>>

vars == <<clock_vars, bot_vars, config_vars, rcon_vars, io_vars, pub_vars>>

\* ---------------------------------------------------------------------
\* Bounds of the model
\* ---------------------------------------------------------------------
MaxSeconds == 12      \* real instants 0, 1, .. MaxSeconds seconds
MaxMinutes == 48      \* real instants n * rate for n in 1 .. MaxMinutes

\* the calibrations the clock is checked from: <<year, day, hour, minute>>
ClockCalibrations ==
    { <<2, 103, 5, 30>>, <<1, 365, 23, 59>>, <<1, 365, 23, 57>>,
      <<3, 364, 23, 58>>, <<1, 1, 5, 28>>, <<1, 1, 5, 29>>,
      <<1, 200, 17, 28>>, <<1, 1, 17, 30>>, <<1, 1, 0, 0>>,
      <<1, 1, 0, 1>>, <<1, 365, 17, 29>>, <<2, 365, 23, 0>> }

\* n * rate is a double: the float product is the exact product
IsExactMultiple(rate, n) == FMul(rate, n) = MulSmall(rate, n)

\* the real instants at which the clock is queried: whole seconds, and the
\* whole numbers of in-game minutes at either rate that are doubles
Instants ==
    {Seconds(n) : n \in 0..MaxSeconds}
    \cup {MulSmall(DAY_SPM, n) :
             n \in {k \in 1..MaxMinutes : IsExactMultiple(DAY_SPM, k)}}
    \cup {MulSmall(NIGHT_SPM, n) :
             n \in {k \in 1..MaxMinutes : IsExactMultiple(NIGHT_SPM, k)}}

\* a /settime that updates the dict in place and is overtaken after the
\* epoch and the year: the other fields are still the old ones
Calibration_wb_torn(epoch, c) ==
    IF state_wb = None
    THEN [real_epoch |-> epoch, year |-> c[1], day |-> c[2], hour |-> c[3],
          minute |-> c[4]]
    ELSE [state_wb EXCEPT !.real_epoch = epoch, !.year = c[1]]

\* the dict written by /settime of the webhook bot
Calibration_wb(epoch, c) ==
    [real_epoch |-> epoch, year |-> c[1], day |-> c[2], hour |-> c[3],
     minute |-> c[4]]

\* the dict written by /settime of the time bot
Calibration_tb(epoch, c) ==
    [epoch |-> epoch, year |-> c[1], day |-> c[2], hour |-> c[3],
     minute |-> c[4]]

\* ---------------------------------------------------------------------
\* Module globals at start-up
\* ---------------------------------------------------------------------
\* no title, no day key, no bucket: Python None for a string or a tuple
NoTuple == <<>>

\* no message id: Python None for webhook_message_id / message_ids[key]
NoId == ""

\* last_announced_absolute_day = None
NoDay == 0 - 1

\* webhook bot: webhook_message_id, _last_embed_title, _last_embed_color,
\* _last_force_refresh_at, _last_time_channel_name, _last_announced_day_key
InitMem_wb ==
    [webhook_message_id |-> NoId, last_embed_title |-> NoTuple,
     last_embed_color |-> NoTuple, last_force_refresh_at |-> Zero,
     last_time_channel_name |-> NoTuple, last_announced_day_key |-> NoTuple]

\* time bot: message_ids["time"], last_announced_absolute_day,
\* last_time_bucket; running says that the time_loop task is alive
InitMem_tb ==
    [message_id_time |-> NoId, last_announced_absolute_day |-> NoDay,
     last_time_bucket |-> NoTuple, running |-> TRUE]

\* a handler and the arguments it ran with
Ran(handler, args) == [handler |-> handler, args |-> args]

\* no handler has run
InitBots ==
    /\ mem_wb = InitMem_wb
    /\ mem_tb = InitMem_tb
    /\ last = Ran("start", <<>>)
    /\ reply = ""
    /\ effects = {}

\* the rates of the CONFIG section as they are in the source
ShippedRates == [day |-> DAY_SECONDS_PER_INGAME_MINUTE,
                 night |-> NIGHT_SECONDS_PER_INGAME_MINUTE]

\* no clock query is in progress; the module has been imported
NoRun == [pc |-> "ready", s |-> None, iterations |-> 0]

\* the id of the AUTH_RESPONSE of a server that has not answered
NoReply == 0

\* the text of a result or of a packet body is a sequence of characters
NoResult == [ok |-> FALSE, text |-> <<"pending">>]

\* no RCON call has been made: no socket exists
NoRcon ==
    [pc |-> "idle", conn |-> "none", sent |-> <<>>, inbox |-> <<>>,
     answered |-> 0, auth_reply |-> NoReply, eof |-> FALSE,
     reads |-> 0, parts |-> <<>>, result |-> NoResult, served |-> <<>>]

\* no bytes have been given to the RCON code
NoWire ==
    [kind |-> "none", body |-> <<>>, cut |-> 0, terminated |-> FALSE,
     ending |-> "silent", fault |-> [what |-> "none", arg |-> 0],
     req_id |-> 0, ptype |-> 0, text |-> <<>>,
     split |-> [ok |-> FALSE, text |-> <<>>, error |-> "pending"],
     unsplit |-> [ok |-> FALSE, text |-> <<>>, error |-> "pending"],
     malformed |-> [ok |-> FALSE, text |-> <<>>, error |-> "pending"],
     built |-> [wb |-> [raised |-> "pending", bytes |-> <<>>],
                tb |-> [raised |-> "pending", bytes |-> <<>>]]]

\* on_ready has created both tasks: each is about to run its first cycle,
\* no RCON call has been made
NoTasks ==
    [time |-> "due", status |-> "due", cycle |-> 0, ticks |-> 0,
     configured |-> TRUE, online |-> FALSE, outcome |-> "none",
     failed |-> FALSE, stopped |-> ""]

\* the program as it is in the source, with no RCON call made
\* nothing has been published: no message of the time webhook exists, the
\* loop has observed no in-game time and no set-time command was given.
\* `requests` are the requests of the latest step and their answers, `moved`
\* says that a set-time command came after the latest iteration
NoPub ==
    [at |-> 1, sets |-> 0, messages |-> {}, used |-> {},
     requests |-> [patch |-> "none", post |-> "none"],
     observed |-> NoTuple, moved |-> FALSE, channel |-> TRUE, posted |-> {},
     before |-> {}]

\* the status has not been polled: the RUNTIME STATE globals last_vc_name
\* and last_vc_edit_ts of the time bot as they are at start-up
NoVc ==
    [last_vc_name |-> NoTuple, last_vc_edit_ts |-> 0,
     clock |-> 0, polls |-> 0, phase |-> "due",
     nitrado |-> [online |-> FALSE, count |-> 0],
     status |-> [polled |-> FALSE, count |-> 0, online |-> FALSE,
                 rcon_ok |-> FALSE],
     desired |-> NoTuple, throttled |-> FALSE, suppressed |-> NoTuple,
     channel |-> TRUE, request |-> "none", name |-> NoTuple]

InitShipped ==
    /\ rates = ShippedRates
    /\ run = NoRun
    /\ rcon = NoRcon
    /\ wire = NoWire
    /\ tasks = NoTasks
    /\ pub = NoPub
    /\ vc = NoVc

\* ---------------------------------------------------------------------
\* The clock as a function of real time (both bots, no recalibration)
\* ---------------------------------------------------------------------
\* both bots start with the same calibration, loaded from state.json and
\* taken at the origin of the model's real time
InitClock ==
    /\ now = Zero
    /\ \E c \in ClockCalibrations :
          /\ state_wb = Calibration_wb(Zero, c)
          /\ state_tb = Calibration_tb(Zero, c)
    /\ file_wb = state_wb
    /\ file_tb = state_tb
    /\ info = None
    /\ snap = None
    /\ calls = 0
    /\ bot = "wb"
    /\ config = [time_channel |-> TRUE, announce_channel |-> TRUE]
    /\ InitBots
    /\ InitShipped

\* elapsed_real = time.time() - float(state["real_epoch"])
elapsed_wb(t) == FSubSigned(Signed(t), state_wb.real_epoch)

\* elapsed = time.time() - float(state["epoch"])
elapsed_tb(t) == FSubSigned(Signed(t), state_tb.epoch)

\* a query that re-anchors the calibration at the instant of the query
Observe_reanchor(t) ==
    /\ Cmp(t, now) >= 0
    /\ now' = t
    /\ info' = calculate_time(state_wb, elapsed_wb(t))
    /\ snap' = calculate_time_snapshot(state_tb, elapsed_tb(t))
    /\ calls' = IF t = now /\ calls >= 1 THEN 2 ELSE 1
    /\ state_wb' = [state_wb EXCEPT !.real_epoch = t,
                                     !.hour = info'.hour, !.minute = info'.minute]
    /\ UNCHANGED <<config_vars, rcon_vars, pub_vars, io_vars, file_wb, state_tb, file_tb,
                   bot_vars>>

\* real time reaches t and both bots compute the time: calculate_time() of
\* the webhook bot, calculate_time_snapshot() of the time bot
Observe(t) ==
    /\ Cmp(t, now) >= 0
    /\ now' = t
    /\ info' = calculate_time(state_wb, elapsed_wb(t))
    /\ snap' = calculate_time_snapshot(state_tb, elapsed_tb(t))
    /\ calls' = IF t = now /\ calls >= 1 THEN 2 ELSE 1
    /\ UNCHANGED <<config_vars, rcon_vars, pub_vars, io_vars, state_wb, file_wb, state_tb,
                   file_tb, bot_vars>>

NextClock == \E t \in Instants : Observe(t)

SpecClock == InitClock /\ [][NextClock]_vars

\* ---------------------------------------------------------------------
\* Properties of the clock
\* ---------------------------------------------------------------------
\* (year, day, hour, minute) compared in that order
TimeLeq(a, b) ==
    \/ a.year < b.year
    \/ a.year = b.year /\ a.day < b.day
    \/ a.year = b.year /\ a.day = b.day /\ a.hour < b.hour
    \/ a.year = b.year /\ a.day = b.day /\ a.hour = b.hour
          /\ a.minute <= b.minute

\* in-game minutes since the start of year 0
AbsMinuteOf(year, day, minute_of_day_) ==
    (year * 365 + (day - 1)) * 1440 + minute_of_day_

AbsMinute(r) == AbsMinuteOf(r.year, r.day, r.hour * 60 + r.minute)

\* C1: with the calibration unchanged, a query at a later (or the same)
\* instant never returns an earlier (year, day, hour, minute) than the query
\* before it, for calculate_time and for calculate_time_snapshot.
C1_Monotonic ==
    [][(info # None /\ state_wb' = state_wb /\ state_tb' = state_tb
            /\ Cmp(now', now) >= 0)
        => TimeLeq(info, info') /\ TimeLeq(snap, snap')]_vars

\* both clocks have been queried again after passing midnight of day 365
C1_Witness ==
    /\ info # None /\ calls = 1 /\ now # Zero
    /\ info.year = state_wb.year + 1
    /\ snap.year = state_tb.year + 1

\* the flag of a result is true exactly for sunrise <= m < sunset
C2_FlagOk(r) ==
    r.is_day <=> (5 * 60 + 30 <= r.minute_of_day /\ r.minute_of_day < 17 * 60 + 30)

\* from result a to result b the clock stays or advances by one minute, and
\* the flag changes only on arriving at sunrise or at sunset
C2_StepOk(a, b) ==
    /\ AbsMinute(b) - AbsMinute(a) \in {0, 1}
    /\ a.is_day # b.is_day => b.minute_of_day \in {5 * 60 + 30, 17 * 60 + 30}

\* C2: queried at instants at most one real second apart (less than an
\* in-game minute at either rate), the reported minute stays or advances by
\* exactly one, across sunrise and sunset too, so none is skipped or
\* repeated; every result's is_day flag is true exactly when its
\* minute-of-day m has sunrise <= m < sunset, so it flips exactly on the
\* result whose minute-of-day is sunrise or sunset.
C2_MinuteByMinute ==
    [][/\ info' # None => C2_FlagOk(info') /\ C2_FlagOk(snap')
       /\ (info # None /\ Cmp(now', now) >= 0
              /\ Cmp(Sub(now', now), Seconds(1)) <= 0)
          => C2_StepOk(info, info') /\ C2_StepOk(snap, snap')]_vars

\* both clocks report sunset, as night, two day minutes after 17:28
C2_Witness ==
    /\ info # None /\ state_wb.hour = 17 /\ state_wb.minute = 28
    /\ info.minute_of_day = DAY_END_MIN /\ ~info.is_day
    /\ snap.minute_of_day = SUNSET /\ ~snap.is_day

\* the calibration's minute of day
StartMinute == state_wb.hour * 60 + state_wb.minute

\* C3: calibrated at (year 1, day 365, 23:59) and queried exactly two night
\* minutes later, both clocks report (year 2, day 1, 00:01); whenever the
\* clock has passed 23:59 of day 365 of year y it reports day 1 of year
\* y + 1, and the day is never 366 or 0.
C3_YearRollover ==
    info # None =>
        /\ info.day \in 1..365 /\ snap.day \in 1..365
        /\ (/\ state_wb = Calibration_wb(Zero, <<1, 365, 23, 59>>)
            /\ now = MulSmall(NIGHT_SECONDS_PER_INGAME_MINUTE, 2))
           => /\ <<info.year, info.day, info.hour, info.minute>> = <<2, 1, 0, 1>>
              /\ <<snap.year, snap.day, snap.hour, snap.minute>> = <<2, 1, 0, 1>>
        /\ (state_wb.day = 365 /\ info.minute_of_day < StartMinute)
           => info.day = 1 /\ info.year = state_wb.year + 1
        /\ (state_tb.day = 365 /\ snap.minute_of_day < StartMinute)
           => snap.day = 1 /\ snap.year = state_tb.year + 1

\* the query two night minutes after (year 1, day 365, 23:59)
C3_Witness ==
    /\ state_wb = Calibration_wb(Zero, <<1, 365, 23, 59>>)
    /\ now = MulSmall(NIGHT_SECONDS_PER_INGAME_MINUTE, 2)
    /\ info # None /\ info.day = 1 /\ snap.day = 1

\* the first boundary after the calibration, in minutes since the
\* calibration day's midnight
C4_Boundary ==
    IF StartMinute < DAY_START_MIN THEN DAY_START_MIN
    ELSE IF StartMinute < DAY_END_MIN THEN DAY_END_MIN
    ELSE 1440 + DAY_START_MIN

\* the rate of the segment the calibration lies in
C4_Rate ==
    IF DAY_START_MIN <= StartMinute /\ StartMinute < DAY_END_MIN
    THEN DAY_SECONDS_PER_INGAME_MINUTE ELSE NIGHT_SECONDS_PER_INGAME_MINUTE

\* C4: when the elapsed time is exactly n times the rate r of the
\* calibration's segment (n * r being a float) and the next boundary is not
\* reached, both clocks report the calibrated time plus exactly n minutes;
\* (year 2, day 103, 05:30) queried 4.7666667 s later reports 05:31 on day
\* 103 of year 2, daytime.
C4_ExactMinutes ==
    \A n \in 1..MaxMinutes :
        (/\ info # None
         /\ IsExactMultiple(C4_Rate, n)
         /\ now = MulSmall(C4_Rate, n)
         /\ StartMinute + n < C4_Boundary)
        => /\ AbsMinute(info)
                = AbsMinuteOf(state_wb.year, state_wb.day, StartMinute) + n
           /\ AbsMinute(snap)
                = AbsMinuteOf(state_tb.year, state_tb.day, StartMinute) + n
           /\ (state_wb = Calibration_wb(Zero, <<2, 103, 5, 30>>) /\ n = 1)
              => /\ <<info.year, info.day, info.hour, info.minute, info.is_day>>
                      = <<2, 103, 5, 31, TRUE>>
                 /\ <<snap.year, snap.day, snap.hour, snap.minute, snap.is_day>>
                      = <<2, 103, 5, 31, TRUE>>

\* midnights passed since the calibration; less than a day has elapsed
C7_Midnights(r) == IF r.minute_of_day < StartMinute THEN 1 ELSE 0

\* the day and year that follow from the calibration and the midnights passed
C7_Expected(cal, r) ==
    LET days == (cal.day - 1) + C7_Midnights(r)
    IN  <<cal.year + (days \div 365), (days % 365) + 1>>

TickSeconds == 4      \* real seconds between two instants of the model
MaxTicks == 2         \* the model's real time ends at MaxTicks * TickSeconds

FORCE_REFRESH_SECONDS == 600

\* /settime arguments <<year, day, hour, minute>>: valid ones, and ones that
\* break one constraint each
SetTimeRequests ==
    { <<1, 365, 23, 59>>, <<2, 103, 5, 29>>,
      <<0, 1, 0, 0>>, <<1, 366, 0, 0>>, <<1, 0, 0, 0>>, <<1, 1, 24, 0>>,
      <<1, 1, 0, 60>> }

\* /settime arguments sent by a member without the admin role
DeniedRequests == { <<1, 365, 23, 59>>, <<1, 366, 0, 0>> }

\* outcomes of an HTTP request to the webhook
HttpOutcomes == {"ok", "404", "error"}

\* ids the webhook gives to a posted message
MessageIds == {"m1", "m2"}

\* the title string f"{emoji} | Solunaris Time | {hour}:{minute} | Day
\* {day} | Year {year}", as the values it is formatted from
Title(r) == <<r.is_day, r.hour, r.minute, r.day, r.year>>

Color(r) == IF r.is_day THEN <<"DAY_COLOR">> ELSE <<"NIGHT_COLOR">>

InitSpec ==
    /\ now = Zero
    /\ state_wb = None /\ file_wb = None
    /\ state_tb = None /\ file_tb = None
    /\ info = None /\ snap = None
    /\ calls = 0
    /\ bot \in {"wb", "tb"}
    /\ config \in [time_channel : BOOLEAN, announce_channel : BOOLEAN]
    /\ bot = "tb" => config = [time_channel |-> TRUE, announce_channel |-> TRUE]
    /\ InitBots
    /\ InitShipped

\* real time passes; the handlers that ran have returned, their results
\* and replies are gone
Tick ==
    /\ Cmp(now, Seconds(MaxTicks * TickSeconds)) < 0
    /\ now' = Round53(Add(now, Seconds(TickSeconds)), FALSE)
    /\ info' = None /\ snap' = None
    /\ last' = Ran("tick", <<>>) /\ reply' = "" /\ effects' = {}
    /\ UNCHANGED <<config_vars, rcon_vars, pub_vars, io_vars, state_wb, file_wb, state_tb,
                   file_tb, calls, bot, config, mem_wb, mem_tb>>

\* ----- webhook bot -----
\* /settime of the webhook bot
settime_cmd(admin, year, day, hour, minute) ==
    /\ bot = "wb"
    /\ last' = Ran("settime_cmd", <<admin, year, day, hour, minute>>)
    /\ effects' = {}
    /\ IF ~admin
       THEN /\ reply' = "You must have the required admin role"
            /\ UNCHANGED <<state_wb, file_wb>>
       ELSE IF year < 1 \/ day < 1 \/ day > 365 \/ hour < 0 \/ hour > 23
                  \/ minute < 0 \/ minute > 59
       THEN /\ reply' = "Invalid values"
            /\ UNCHANGED <<state_wb, file_wb>>
       ELSE /\ state_wb' = Calibration_wb(now, <<year, day, hour, minute>>)
            /\ file_wb' = state_wb'
            /\ reply' = "Set"
    /\ UNCHANGED <<config_vars, rcon_vars, pub_vars, io_vars, now, state_tb, file_tb, info, snap,
                   calls, bot, config, mem_wb, mem_tb>>

\* /day
day_cmd ==
    /\ bot = "wb"
    /\ last' = Ran("day_cmd", <<>>)
    /\ effects' = {}
    /\ info' = calculate_time(state_wb, elapsed_wb(now))
    /\ reply' = IF info' = None THEN "Time not set yet" ELSE "title"
    /\ UNCHANGED <<config_vars, rcon_vars, pub_vars, io_vars, now, state_wb, file_wb, state_tb,
                   file_tb, snap, calls, bot, config, mem_wb, mem_tb>>

\* [mem, effects] after upsert_webhook_embed(session, title, color) at time t
upsert_webhook_embed(mem, title, color, t, http, new_id) ==
    LET changed == title # mem.last_embed_title \/ color # mem.last_embed_color
        forced_due == Cmp(t, mem.last_force_refresh_at) >= 0
        sent == [mem EXCEPT !.last_embed_title = title,
                            !.last_embed_color = color,
                            !.last_force_refresh_at =
                                Round53(Add(t, Seconds(FORCE_REFRESH_SECONDS)),
                                        FALSE)]
    IN  IF ~changed /\ ~forced_due THEN [mem |-> mem, effects |-> {}]
        ELSE IF mem.webhook_message_id # NoId
        THEN [mem |-> IF http = "error"
                      THEN [mem EXCEPT !.webhook_message_id = NoId]
                      ELSE sent,
              effects |-> {"webhook PATCH"}]
        ELSE [mem |-> IF http = "ok"
                      THEN [sent EXCEPT !.webhook_message_id = new_id]
                      ELSE [mem EXCEPT !.webhook_message_id = NoId],
              effects |-> {"webhook POST"}]

\* [mem, effects] after announce_new_day(time_info)
announce_new_day(mem, time_info, channel_found) ==
    LET key == <<time_info.year, time_info.day>>
    IN  IF ~config.announce_channel THEN [mem |-> mem, effects |-> {}]
        ELSE IF mem.last_announced_day_key = NoTuple
        THEN [mem |-> [mem EXCEPT !.last_announced_day_key = key],
              effects |-> {}]
        ELSE IF key # mem.last_announced_day_key
        THEN [mem |-> [mem EXCEPT !.last_announced_day_key = key],
              effects |-> IF channel_found THEN {"announce"} ELSE {}]
        ELSE [mem |-> mem, effects |-> {}]

\* the body of `if info:` in time_webhook_loop
time_webhook_body(inf, http, new_id, channel_found) ==
    LET up == upsert_webhook_embed(mem_wb, Title(inf), Color(inf), now, http,
                                   new_id)
        rename == config.time_channel
                      /\ Title(inf) # up.mem.last_time_channel_name
        named == IF rename
                 THEN [up.mem EXCEPT !.last_time_channel_name = Title(inf)]
                 ELSE up.mem
        ann == announce_new_day(named, inf, channel_found)
    IN  [mem |-> ann.mem,
         effects |-> up.effects \cup ann.effects
                        \cup (IF rename THEN {"rename"} ELSE {})]

\* an iteration of time_webhook_loop without the check `if info:`
time_webhook_loop_unchecked ==
    /\ bot = "wb"
    /\ last' = Ran("time_webhook_loop", <<>>)
    /\ \E inf \in {calculate_time(state_wb, elapsed_wb(now))} :
          /\ info' = inf
          /\ \E done \in {time_webhook_body(
                              IF inf = None
                              THEN [is_day |-> FALSE, hour |-> 0,
                                    minute |-> 0, day |-> 0, year |-> 0]
                              ELSE inf, http, new_id, channel_found) :
                          http \in HttpOutcomes, new_id \in MessageIds,
                          channel_found \in BOOLEAN} :
                mem_wb' = done.mem /\ effects' = done.effects
    /\ UNCHANGED <<config_vars, rcon_vars, pub_vars, io_vars, now, state_wb, file_wb, state_tb,
                   file_tb, snap, calls, bot, config, mem_tb, reply>>

\* one iteration of `while True` in time_webhook_loop
time_webhook_loop ==
    /\ bot = "wb"
    /\ last' = Ran("time_webhook_loop", <<>>)
    /\ \E inf \in {calculate_time(state_wb, elapsed_wb(now))} :
          /\ info' = inf
          /\ IF inf = None
             THEN mem_wb' = mem_wb /\ effects' = {}
             ELSE \E done \in {time_webhook_body(inf, http, new_id,
                                                 channel_found) :
                                http \in HttpOutcomes, new_id \in MessageIds,
                                channel_found \in BOOLEAN} :
                     mem_wb' = done.mem /\ effects' = done.effects
    /\ UNCHANGED <<config_vars, rcon_vars, pub_vars, io_vars, now, state_wb, file_wb, state_tb,
                   file_tb, snap, calls, bot, config, mem_tb, reply>>

\* ----- time bot -----
\* /settime of the time bot
settime(admin, year, day, hour, minute) ==
    /\ bot = "tb"
    /\ last' = Ran("settime", <<admin, year, day, hour, minute>>)
    /\ effects' = {}
    /\ IF ~admin
       THEN /\ reply' = "No permission"
            /\ UNCHANGED <<state_tb, file_tb, mem_tb>>
       ELSE /\ state_tb' = Calibration_tb(now, <<year, day, hour, minute>>)
            /\ file_tb' = state_tb'
            /\ mem_tb' = [mem_tb EXCEPT !.last_time_bucket = NoTuple]
            /\ reply' = "Time set"
    /\ UNCHANGED <<config_vars, rcon_vars, pub_vars, io_vars, now, state_wb, file_wb, info, snap,
                   calls, bot, config, mem_wb>>

\* [mem, effects] after upsert_webhook(session, WEBHOOK_URL, "time", embed);
\* an exception of the HTTP client leaves the function and ends the task
upsert_webhook(mem, http, http_again, new_id) ==
    LET post(outcome) ==
            [mem |-> IF outcome = "ok"
                     THEN [mem EXCEPT !.message_id_time = new_id]
                     ELSE [mem EXCEPT !.message_id_time = NoId,
                                      !.running = FALSE],
             effects |-> {"webhook POST"}]
    IN  IF mem.message_id_time # NoId
        THEN IF http = "404"
             THEN [mem |-> post(http_again).mem,
                   effects |-> {"webhook PATCH", "webhook POST"}]
             ELSE [mem |-> IF http = "error"
                           THEN [mem EXCEPT !.running = FALSE] ELSE mem,
                   effects |-> {"webhook PATCH"}]
        ELSE post(http)

\* the body of `if snap:` without the test of is_round_10
time_loop_body_any_minute(sn, http, http_again, new_id, channel_found) ==
    LET absolute_day == sn.year * 365 + sn.day
        first == mem_tb.last_announced_absolute_day = NoDay
        newer == ~first /\ absolute_day > mem_tb.last_announced_absolute_day
        announced ==
            IF first \/ newer
            THEN [mem_tb EXCEPT !.last_announced_absolute_day = absolute_day]
            ELSE mem_tb
        bucket == <<sn.year, sn.day, sn.minute_of_day \div 10>>
        post == bucket # mem_tb.last_time_bucket
        up == upsert_webhook(announced, http, http_again, new_id)
    IN  [mem |-> IF ~post THEN announced
                 ELSE IF up.mem.running
                 THEN [up.mem EXCEPT !.last_time_bucket = bucket]
                 ELSE up.mem,
         effects |-> (IF newer /\ channel_found THEN {"announce"} ELSE {})
                        \cup (IF post THEN up.effects ELSE {})]

\* the body of `if snap:` in time_loop
time_loop_body(sn, http, http_again, new_id, channel_found) ==
    LET absolute_day == sn.year * 365 + sn.day
        first == mem_tb.last_announced_absolute_day = NoDay
        newer == ~first /\ absolute_day > mem_tb.last_announced_absolute_day
        announced ==
            IF first \/ newer
            THEN [mem_tb EXCEPT !.last_announced_absolute_day = absolute_day]
            ELSE mem_tb
        bucket == <<sn.year, sn.day, sn.minute_of_day \div 10>>
        post == sn.minute_of_day % 10 = 0 /\ bucket # mem_tb.last_time_bucket
        up == upsert_webhook(announced, http, http_again, new_id)
    IN  [mem |-> IF ~post THEN announced
                 ELSE IF up.mem.running
                 THEN [up.mem EXCEPT !.last_time_bucket = bucket]
                 ELSE up.mem,
         effects |-> (IF newer /\ channel_found THEN {"announce"} ELSE {})
                        \cup (IF post THEN up.effects ELSE {})]

\* one iteration of `while True` in time_loop
time_loop ==
    /\ bot = "tb"
    /\ mem_tb.running
    /\ last' = Ran("time_loop", <<>>)
    /\ \E sn \in {calculate_time_snapshot(state_tb, elapsed_tb(now))} :
          /\ snap' = sn
          /\ IF sn = None
             THEN mem_tb' = mem_tb /\ effects' = {}
             ELSE \E done \in {time_loop_body(sn, http, http_again, new_id,
                                              channel_found) :
                                http \in HttpOutcomes,
                                http_again \in HttpOutcomes,
                                new_id \in MessageIds,
                                channel_found \in BOOLEAN} :
                     mem_tb' = done.mem /\ effects' = done.effects
    /\ UNCHANGED <<config_vars, rcon_vars, pub_vars, io_vars, now, state_wb, file_wb, state_tb,
                   file_tb, info, calls, bot, config, mem_wb, reply>>

Next ==
    \/ Tick
    \/ \E r \in SetTimeRequests : settime_cmd(TRUE, r[1], r[2], r[3], r[4])
    \/ \E r \in DeniedRequests : settime_cmd(FALSE, r[1], r[2], r[3], r[4])
    \/ day_cmd
    \/ time_webhook_loop
    \/ \E r \in SetTimeRequests : settime(TRUE, r[1], r[2], r[3], r[4])
    \/ \E r \in DeniedRequests : settime(FALSE, r[1], r[2], r[3], r[4])
    \/ time_loop

Spec == InitSpec /\ [][Next]_vars

\* ---------------------------------------------------------------------
\* Properties of the commands and loops
\* ---------------------------------------------------------------------
\* the arguments <<admin, year, day, hour, minute>> break a constraint
C5_Invalid(args) ==
    \/ args[2] < 1
    \/ args[3] < 1 \/ args[3] > 365
    \/ args[4] < 0 \/ args[4] > 23
    \/ args[5] < 0 \/ args[5] > 59

\* C5: a /settime whose values violate year >= 1, day in 1..365, hour in
\* 0..23 or minute in 0..59 is rejected by either bot, and the calibration
\* in memory and in state.json stays the one from before the request.
C5_InvalidRejected ==
    [][(last'.handler \in {"settime_cmd", "settime"} /\ C5_Invalid(last'.args))
        => /\ reply' \notin {"Set", "Time set"}
           /\ state_wb' = state_wb /\ file_wb' = file_wb
           /\ state_tb' = state_tb /\ file_tb' = file_tb]_vars

\* C6: while no calibration has been set the clock query returns None, the
\* time loops of both bots issue no webhook request, no rename and no
\* announcement and leave their globals as they were at start-up, and /day
\* replies that the time is not set.
C6_Uncalibrated ==
    /\ (bot = "wb" /\ state_wb = None)
       => /\ mem_wb = InitMem_wb
          /\ last.handler = "time_webhook_loop" => info = None /\ effects = {}
          /\ last.handler = "day_cmd"
             => info = None /\ reply = "Time not set yet"
    /\ (bot = "tb" /\ state_tb = None /\ file_tb = None)
       => /\ mem_tb = InitMem_tb
          /\ last.handler = "time_loop" => snap = None /\ effects = {}

\* the time loop of the webhook bot has run after real time has passed,
\* with no calibration set
C6_Witness ==
    /\ bot = "wb" /\ state_wb = None /\ now # Zero
    /\ last.handler = "time_webhook_loop"

\* ---------------------------------------------------------------------
\* The rates as configuration: start-up and a clock query, one loop
\* iteration per step, of a program whose CONFIG section holds `rates`
\* ---------------------------------------------------------------------
MaxIterations == 4    \* iterations of `while remaining > 0` that are followed

\* the values the two rate constants of the CONFIG section are given
ConfiguredRates ==
    {[day |-> d, night |-> n] :
        d \in {DAY_SECONDS_PER_INGAME_MINUTE, Zero},
        n \in {NIGHT_SECONDS_PER_INGAME_MINUTE, Zero}}

\* seconds_per_minute(minute_of_day_) reading the configured constants
seconds_per_minute_configured(minute_of_day_) ==
    IF is_day(minute_of_day_) THEN rates.day ELSE rates.night

\* spm(minute_of_day_) reading the configured constants
spm_configured(minute_of_day_) ==
    IF is_day_tb(minute_of_day_) THEN rates.day ELSE rates.night

\* the module is being imported; both programs are calibrated from
\* state.json
InitConfig ==
    /\ now = Zero
    /\ \E c \in ClockCalibrations :
          /\ state_wb = Calibration_wb(Zero, c)
          /\ state_tb = Calibration_tb(Zero, c)
    /\ file_wb = state_wb
    /\ file_tb = state_tb
    /\ info = None
    /\ snap = None
    /\ calls = 0
    /\ bot \in {"wb", "tb"}
    /\ config = [time_channel |-> TRUE, announce_channel |-> TRUE]
    /\ InitBots
    /\ rates \in ConfiguredRates
    /\ run = [pc |-> "import", s |-> None, iterations |-> 0]
    /\ rcon = NoRcon
    /\ wire = NoWire
    /\ tasks = NoTasks
    /\ pub = NoPub
    /\ vc = NoVc

\* the module-level code runs to client.run(): it raises for missing
\* environment variables only, the rates are not looked at
import_module ==
    /\ run.pc = "import"
    /\ run' = NoRun
    /\ UNCHANGED <<clock_vars, bot_vars, rates, rcon_vars, pub_vars, io_vars>>

\* calculate_time() / calculate_time_snapshot() is called at instant t and
\* reaches its loop
query_begin(t) ==
    /\ run.pc \in {"ready", "raised"}
    /\ Cmp(now, t) < 0
    /\ now' = t
    /\ info' = None
    /\ snap' = None
    /\ run' = [pc |-> "loop", iterations |-> 0,
               s |-> IF bot = "wb"
                     THEN [i |-> 0, day |-> state_wb.day,
                           minute_float |->
                               state_wb.hour * 60 + state_wb.minute,
                           remaining |-> elapsed_wb(t)]
                     ELSE [remaining |-> elapsed_tb(t),
                           minute_of_day |->
                               state_tb.hour * 60 + state_tb.minute,
                           day |-> state_tb.day, year |-> state_tb.year]]
    /\ UNCHANGED <<state_wb, file_wb, state_tb, file_tb, calls, bot_vars,
                   rates, rcon_vars, pub_vars, io_vars>>

\* one iteration of the for loop of advance_minutes_piecewise; the division
\* remaining / spm raises ZeroDivisionError when spm is 0.0
advance_step ==
    /\ bot = "wb"
    /\ run.pc = "loop"
    /\ ~advance_done(run.s)
    /\ \E spm_ \in {seconds_per_minute_configured(run.s.minute_float % 1440)} :
       \E secs_until_boundary \in {FMul(spm_, mins_until_boundary(run.s))} :
          IF /\ ~(/\ secs_until_boundary # Zero
                  /\ Cmp(run.s.remaining.mag, secs_until_boundary) >= 0)
             /\ spm_ = Zero
          THEN run' = [run EXCEPT !.pc = "raised",
                                  !.iterations = run.iterations + 1]
          ELSE run' = [run EXCEPT !.s = advance_body_at(run.s, spm_),
                                  !.iterations = run.iterations + 1]
    /\ UNCHANGED <<clock_vars, bot_vars, rates, rcon_vars, pub_vars, io_vars>>

\* one iteration of `while remaining > 0` of calculate_time_snapshot
snapshot_step ==
    /\ bot = "tb"
    /\ run.pc = "loop"
    /\ Positive(run.s.remaining)
    /\ run.iterations < MaxIterations
    /\ run' = [run EXCEPT
                 !.s = snapshot_body_at(run.s,
                                        spm_configured(run.s.minute_of_day)),
                 !.iterations = run.iterations + 1]
    /\ UNCHANGED <<clock_vars, bot_vars, rates, rcon_vars, pub_vars, io_vars>>

\* the loop has ended: the result is built and returned
query_return ==
    /\ run.pc = "loop"
    /\ IF bot = "wb"
       THEN /\ advance_done(run.s)
            /\ \E mod_min \in {run.s.minute_float % 1440} :
               \E rolled \in {roll_year(run.s.day, state_wb.year)} :
                  info' = [day |-> rolled[1], year |-> rolled[2],
                           hour |-> mod_min \div 60,
                           minute |-> mod_min % 60,
                           minute_of_day |-> mod_min,
                           is_day |-> is_day(mod_min)]
            /\ snap' = snap
       ELSE /\ ~Positive(run.s.remaining)
            /\ \E mod_ \in {run.s.minute_of_day} :
                  snap' = [year |-> run.s.year, day |-> run.s.day,
                           hour |-> mod_ \div 60, minute |-> mod_ % 60,
                           minute_of_day |-> mod_,
                           is_day |-> is_day_tb(mod_)]
            /\ info' = info
    /\ run' = NoRun
    /\ UNCHANGED <<now, state_wb, file_wb, state_tb, file_tb, calls,
                   bot_vars, rates, rcon_vars, pub_vars, io_vars>>

NextConfig ==
    \/ import_module
    \/ \E n \in 1..MaxSeconds : query_begin(Seconds(n))
    \/ advance_step
    \/ snapshot_step
    \/ query_return

SpecConfig == InitConfig /\ [][NextConfig]_vars

\* C8: a program configured with a day or night rate of zero is rejected
\* before start-up completes, so it never serves a clock query: no query
\* reaches its loop, none raises ZeroDivisionError and none returns.
C8_ZeroRateRejected ==
    (rates.day = Zero \/ rates.night = Zero)
        => /\ run.pc \in {"import", "InvalidConfig"}
           /\ info = None
           /\ snap = None

\* a query of the webhook bot divides by the zero rate
C8_DividesByZero == ~(bot = "wb" /\ run.pc = "raised")

\* an iteration of the time bot's loop at the zero rate consumes no time
C8_Spins ==
    [][(bot = "tb" /\ run.pc = "loop" /\ run'.pc = "loop")
          => run'.s.remaining # run.s.remaining]_vars

\* with the rates of the source every query returns the clock's value
C8_ShippedAgrees ==
    (rates = ShippedRates /\ run.pc = "ready")
        => /\ info # None => info = calculate_time(state_wb, elapsed_wb(now))
           /\ snap # None
                 => snap = calculate_time_snapshot(state_tb, elapsed_tb(now))

\* ---------------------------------------------------------------------
\* RCON: rcon_command of both programs against a simulated server.  The
\* unit of the connection is the packet <<id, type, body>>; one step of the
\* client is one blocking read with what follows it up to the next read
\* ---------------------------------------------------------------------
RCON_TYPE_AUTH == 3

RCON_TYPE_AUTH_RESP == 2

RCON_TYPE_EXEC == 2

RCON_TYPE_RESPONSE == 0

AUTH_FRAMES == 5      \* for _ in range(5)

EXEC_FRAMES == 10     \* for _ in range(10)

MIN_AUTH_BYTES == 12  \* if len(raw) < 12

\* the password and the command, as texts
RCON_PASSWORD == <<"p">>

COMMAND == <<"c">>

Packet(id, ptype, body) == [id |-> id, type |-> ptype, body |-> body]

\* bytes of a packet on the wire: length field, id, type, body, two nulls
WireLen(pkt) == 4 + 4 + 4 + Len(pkt.body) + 2

RECURSIVE WireLenAll(_)
WireLenAll(pkts) ==
    IF pkts = <<>> THEN 0 ELSE WireLen(Head(pkts)) + WireLenAll(Tail(pkts))

\* "".join(parts)
RECURSIVE join(_)
join(parts) == IF parts = <<>> THEN <<>> ELSE Head(parts) \o join(Tail(parts))

\* str.strip()
RECURSIVE strip(_)
strip(text) ==
    IF text = <<>> THEN text
    ELSE IF Head(text) = " " THEN strip(Tail(text))
    ELSE IF text[Len(text)] = " " THEN strip(SubSeq(text, 1, Len(text) - 1))
    ELSE text

\* the request ids of the AUTH and of the EXEC packet of each program
AuthId(b) == IF b = "wb" THEN 1234 ELSE 1

ExecId(b) == IF b = "wb" THEN 5678 ELSE 2

\* what the simulated server answers to the AUTH packet: the AUTH_RESPONSE
\* with the request's id or with -1, alone or after an empty RESPONSE_VALUE
AuthReplies(id) ==
    {<<Packet(rid, RCON_TYPE_AUTH_RESP, <<>>)>> : rid \in {id, 0 - 1}}
    \cup {<<Packet(id, RCON_TYPE_RESPONSE, <<>>),
            Packet(rid, RCON_TYPE_AUTH_RESP, <<>>)>> : rid \in {id, 0 - 1}}

\* what the simulated server answers to the command: one or two packets of
\* text, with or without an empty packet as terminator
ExecReplies(id) ==
    {<<Packet(id, RCON_TYPE_RESPONSE, <<"a">>)>>,
     <<Packet(id, RCON_TYPE_RESPONSE, <<"a">>),
       Packet(id, RCON_TYPE_RESPONSE, <<"b", " ">>)>>,
     <<Packet(id, RCON_TYPE_RESPONSE, <<"a">>),
       Packet(id, RCON_TYPE_RESPONSE, <<>>)>>,
     <<Packet(id, RCON_TYPE_RESPONSE, <<>>)>>}

\* results of a call: the text returned, or the exception raised
Returned(text) == [ok |-> TRUE, text |-> text]

Raised(what) == [ok |-> FALSE, text |-> <<what>>]

\* the call ends by an exception that leaves the socket open
Fail_open(what) == [rcon EXCEPT !.pc = "done", !.result = Raised(what)]

\* the call ends by an exception: the socket is closed on the way out
Fail(what) ==
    [rcon EXCEPT !.pc = "done", !.conn = "closed", !.result = Raised(what)]

\* the call ends by `return`: the socket is closed on the way out
Return(text) ==
    [rcon EXCEPT !.pc = "done", !.conn = "closed", !.result = Returned(text),
                 !.inbox = <<>>]

\* neither program is calibrated and no RCON call has been made
InitRcon ==
    /\ now = Zero
    /\ state_wb = None /\ file_wb = None
    /\ state_tb = None /\ file_tb = None
    /\ info = None /\ snap = None
    /\ calls = 0
    /\ bot \in {"wb", "tb"}
    /\ config = [time_channel |-> TRUE, announce_channel |-> TRUE]
    /\ InitBots
    /\ InitShipped

\* ----- the simulated server -----
\* the server answers the AUTH packet
server_auth_reply ==
    /\ rcon.conn = "open" /\ ~rcon.eof
    /\ rcon.answered = 0 /\ Len(rcon.sent) >= 1
    /\ \E rep \in AuthReplies(rcon.sent[1].id) :
          rcon' = [rcon EXCEPT !.inbox = rcon.inbox \o rep,
                               !.answered = 1,
                               !.auth_reply = rep[Len(rep)].id]
    /\ UNCHANGED <<clock_vars, bot_vars, config_vars, io_vars, pub_vars>>

\* the server, having accepted the AUTH packet, answers the command
server_exec_reply ==
    /\ rcon.conn = "open" /\ ~rcon.eof
    /\ rcon.answered = 1 /\ Len(rcon.sent) = 2
    /\ rcon.auth_reply = rcon.sent[1].id
    /\ \E rep \in ExecReplies(rcon.sent[2].id) :
          rcon' = [rcon EXCEPT !.inbox = rcon.inbox \o rep, !.answered = 2]
    /\ UNCHANGED <<clock_vars, bot_vars, config_vars, io_vars, pub_vars>>

\* what the simulated server sends after the command when a late reply to
\* the AUTH packet, with a text of its own, comes before the response
LateReplies(auth_id, id) ==
    {<<Packet(auth_id, RCON_TYPE_RESPONSE, <<"x">>),
       Packet(id, RCON_TYPE_RESPONSE, <<"a">>)>>,
     <<Packet(auth_id, RCON_TYPE_RESPONSE, <<"x">>),
       Packet(id, RCON_TYPE_RESPONSE, <<"a">>),
       Packet(id, RCON_TYPE_RESPONSE, <<>>)>>}

\* the server, having accepted the AUTH packet, answers the command after
\* a late reply to the AUTH packet
server_late_reply ==
    /\ rcon.conn = "open" /\ ~rcon.eof
    /\ rcon.answered = 1 /\ Len(rcon.sent) = 2
    /\ rcon.auth_reply = rcon.sent[1].id
    /\ \E rep \in LateReplies(rcon.sent[1].id, rcon.sent[2].id) :
          rcon' = [rcon EXCEPT !.inbox = rcon.inbox \o rep, !.answered = 2]
    /\ UNCHANGED <<clock_vars, bot_vars, config_vars, io_vars, pub_vars>>

\* the server closes its side of the connection
server_hangup ==
    /\ rcon.conn = "open" /\ ~rcon.eof
    /\ rcon' = [rcon EXCEPT !.eof = TRUE]
    /\ UNCHANGED <<clock_vars, bot_vars, config_vars, io_vars, pub_vars>>

\* ----- webhook bot -----
\* rcon_command to the first _rcon_recv: connect and send the AUTH packet
rcon_auth_wb ==
    /\ bot = "wb"
    /\ rcon.pc \in {"idle", "done"}
    /\ \E connected \in BOOLEAN :
          rcon' = IF connected
                  THEN [NoRcon EXCEPT
                          !.pc = "auth", !.conn = "open",
                          !.sent = <<Packet(AuthId("wb"), RCON_TYPE_AUTH,
                                            RCON_PASSWORD)>>]
                  ELSE [NoRcon EXCEPT !.pc = "done", !.conn = "closed",
                                      !.result = Raised("connect")]
    /\ UNCHANGED <<clock_vars, bot_vars, config_vars, io_vars, pub_vars>>

\* one _rcon_recv of the auth loop; on the AUTH_RESPONSE of our request the
\* EXEC packet is sent
rcon_auth_recv_wb ==
    /\ bot = "wb"
    /\ rcon.pc = "auth"
    /\ rcon' =
         IF rcon.inbox = <<>>
         THEN IF rcon.eof THEN Fail("RCON: short read (len)")
              ELSE Fail("timed out")
         ELSE LET pkt == Head(rcon.inbox)
                  rest == Tail(rcon.inbox)
              IN  IF pkt.type = RCON_TYPE_AUTH_RESP
                  THEN IF pkt.id = 0 - 1
                       THEN Fail("RCON auth failed (bad password or blocked).")
                       ELSE [rcon EXCEPT
                               !.inbox = rest, !.pc = "exec", !.reads = 0,
                               !.sent = Append(rcon.sent,
                                               Packet(ExecId("wb"),
                                                      RCON_TYPE_EXEC,
                                                      COMMAND))]
                  ELSE IF rcon.reads + 1 >= AUTH_FRAMES
                       THEN Fail("RCON auth failed (no auth response).")
                       ELSE [rcon EXCEPT !.inbox = rest,
                                         !.reads = rcon.reads + 1]
    /\ UNCHANGED <<clock_vars, bot_vars, config_vars, io_vars, pub_vars>>

\* one _rcon_recv of the response loop
rcon_exec_recv_wb ==
    /\ bot = "wb"
    /\ rcon.pc = "exec"
    /\ rcon' =
         IF rcon.inbox = <<>>
         THEN IF rcon.eof THEN Fail("RCON: short read (len)")
              ELSE Fail("timed out")
         ELSE LET pkt == Head(rcon.inbox)
                  rest == Tail(rcon.inbox)
                  taken == pkt.id = ExecId("wb")
                           /\ pkt.type \in {RCON_TYPE_RESPONSE, RCON_TYPE_EXEC}
                  parts == IF taken /\ pkt.body # <<>>
                           THEN Append(rcon.parts, pkt.body) ELSE rcon.parts
              IN  IF (taken /\ pkt.body = <<>>)
                     \/ rcon.reads + 1 >= EXEC_FRAMES
                  THEN [Return(strip(join(parts))) EXCEPT !.parts = parts]
                  ELSE [rcon EXCEPT !.inbox = rest, !.parts = parts,
                                    !.reads = rcon.reads + 1]
    /\ UNCHANGED <<clock_vars, bot_vars, config_vars, io_vars, pub_vars>>

\* ----- time bot -----
\* rcon_command to the first reader.read: connect and send the AUTH packet
rcon_auth_tb ==
    /\ bot = "tb"
    /\ rcon.pc \in {"idle", "done"}
    /\ \E connected \in BOOLEAN :
          rcon' = IF connected
                  THEN [NoRcon EXCEPT
                          !.pc = "auth", !.conn = "open",
                          !.sent = <<Packet(AuthId("tb"), RCON_TYPE_AUTH,
                                            RCON_PASSWORD)>>]
                  ELSE [NoRcon EXCEPT !.pc = "done",
                                      !.result = Raised("connect")]
    /\ UNCHANGED <<clock_vars, bot_vars, config_vars, io_vars, pub_vars>>

\* raw = reader.read(4096): the packets that have arrived, or some of them;
\* with 12 bytes or more the EXEC packet is sent
rcon_auth_read_tb ==
    /\ bot = "tb"
    /\ rcon.pc = "auth"
    /\ IF rcon.inbox = <<>>
       THEN rcon' = IF rcon.eof
                    THEN Fail("RCON auth failed (short response)")
                    ELSE Fail("TimeoutError")
       ELSE \E k \in 1..Len(rcon.inbox) :
               rcon' =
                 IF WireLenAll(SubSeq(rcon.inbox, 1, k)) < MIN_AUTH_BYTES
                 THEN Fail("RCON auth failed (short response)")
                 ELSE [rcon EXCEPT
                         !.inbox = SubSeq(rcon.inbox, k + 1, Len(rcon.inbox)),
                         !.pc = "exec", !.reads = 0,
                         !.sent = Append(rcon.sent,
                                         Packet(ExecId("tb"), RCON_TYPE_EXEC,
                                                COMMAND))]
    /\ UNCHANGED <<clock_vars, bot_vars, config_vars, io_vars, pub_vars>>

\* the text of every packet of the chunks, in order
RECURSIVE bodies(_)
bodies(pkts) ==
    IF pkts = <<>> THEN <<>>
    ELSE IF Head(pkts).body # <<>>
         THEN <<Head(pkts).body>> \o bodies(Tail(pkts))
         ELSE bodies(Tail(pkts))

\* part = reader.read(4096) with the idle timeout of 0.3 s: a chunk is
\* kept, a timeout or the end of the stream ends the loop and the chunks
\* are parsed
rcon_exec_read_tb ==
    /\ bot = "tb"
    /\ rcon.pc = "exec"
    /\ IF rcon.inbox = <<>>
       THEN rcon' = IF rcon.parts = <<>> THEN Return(<<>>)
                    ELSE Return(strip(join(bodies(rcon.parts))))
       ELSE \E k \in 1..Len(rcon.inbox) :
               rcon' = [rcon EXCEPT
                          !.inbox = SubSeq(rcon.inbox, k + 1, Len(rcon.inbox)),
                          !.parts = rcon.parts \o SubSeq(rcon.inbox, 1, k),
                          !.reads = rcon.reads + 1]
    /\ UNCHANGED <<clock_vars, bot_vars, config_vars, io_vars, pub_vars>>

NextRcon ==
    \/ server_auth_reply
    \/ server_exec_reply
    \/ server_late_reply
    \/ server_hangup
    \/ rcon_auth_wb
    \/ rcon_auth_recv_wb
    \/ rcon_exec_recv_wb
    \/ rcon_auth_tb
    \/ rcon_auth_read_tb
    \/ rcon_exec_read_tb

SpecRcon == InitRcon /\ [][NextRcon]_vars

\* C10: once the server has answered the AUTH packet with an AUTH_RESPONSE
\* of id -1, the client sends nothing after the AUTH packet, and the call
\* ends with the authentication failure and the connection closed.
C10_AuthRejected ==
    rcon.auth_reply = 0 - 1
        => /\ Len(rcon.sent) = 1
           /\ rcon.pc = "done"
                 => /\ rcon.conn = "closed"
                    /\ rcon.result =
                         Raised("RCON auth failed (bad password or blocked).")

\* the same of the webhook bot alone
C10_AuthRejected_wb == bot = "wb" => C10_AuthRejected

\* the empty RESPONSE_VALUE some servers send before the AUTH_RESPONSE
C11_Extra == Packet(AuthId(bot), RCON_TYPE_RESPONSE, <<>>)

\* C11: a read of the client that finds the empty RESPONSE_VALUE ahead of
\* the AUTH_RESPONSE decides nothing from it: a read that takes only the
\* extra packet leaves the call waiting for the AUTH_RESPONSE with nothing
\* sent, and a read that takes both packets has the outcome the
\* AUTH_RESPONSE gives (failure on id -1, otherwise the command is sent).
C11_SkipsEmptyResponse ==
    [][(/\ rcon.pc = "auth"
        /\ Len(rcon.inbox) = 2
        /\ Head(rcon.inbox) = C11_Extra
        /\ rcon'.inbox # rcon.inbox)
          => \/ /\ rcon'.inbox = Tail(rcon.inbox)
                /\ rcon'.pc = "auth"
                /\ rcon'.sent = rcon.sent
             \/ /\ rcon'.inbox = <<>>
                /\ IF rcon.inbox[2].id = 0 - 1
                   THEN /\ rcon'.pc = "done"
                        /\ rcon'.sent = rcon.sent
                        /\ ~rcon'.result.ok
                   ELSE /\ rcon'.pc = "exec"
                        /\ Len(rcon'.sent) = 2]_vars

\* the same of the webhook bot alone
C11_SkipsEmptyResponse_wb ==
    [][bot = "wb" =>
        ((/\ rcon.pc = "auth"
          /\ Len(rcon.inbox) = 2
          /\ Head(rcon.inbox) = C11_Extra
          /\ rcon'.inbox # rcon.inbox)
            => /\ rcon'.inbox = Tail(rcon.inbox)
               /\ rcon'.pc = "auth"
               /\ rcon'.sent = rcon.sent)]_vars

\* ---------------------------------------------------------------------
\* RCON on the wire: a text is a sequence of code points, the connection
\* carries a sequence of bytes
\* ---------------------------------------------------------------------
\* struct.pack("<i", v) / v.to_bytes(4, "little", signed=True)
int32le(v) ==
    <<v % 256, (v \div 256) % 256, (v \div 65536) % 256,
      (v \div 16777216) % 256>>

\* struct.unpack("<i", b) / int.from_bytes(b, "little", signed=True)
from_int32le(b) ==
    b[1] + 256 * b[2] + 65536 * b[3]
    + 16777216 * (IF b[4] >= 128 THEN b[4] - 256 ELSE b[4])

\* a lone surrogate: a code point UTF-8 does not encode
is_surrogate(c) == c >= 55296 /\ c <= 57343

\* the UTF-8 bytes of one code point
encode_char(c) ==
    IF c < 128 THEN <<c>>
    ELSE IF c < 2048 THEN <<192 + (c \div 64), 128 + (c % 64)>>
    ELSE IF c < 65536
         THEN <<224 + (c \div 4096), 128 + ((c \div 64) % 64),
                128 + (c % 64)>>
    ELSE <<240 + (c \div 262144), 128 + ((c \div 4096) % 64),
           128 + ((c \div 64) % 64), 128 + (c % 64)>>

\* body.encode("utf-8", errors="replace"): "?" for what cannot be encoded
RECURSIVE encode_replace(_)
encode_replace(text) ==
    IF text = <<>> THEN <<>>
    ELSE (IF is_surrogate(Head(text)) THEN <<63>>
          ELSE encode_char(Head(text))) \o encode_replace(Tail(text))

\* body.encode("utf-8") raises UnicodeEncodeError on a lone surrogate
encodable(text) == \A i \in 1..Len(text) : ~is_surrogate(text[i])

\* the bytes a builder returned, or the exception it raised
Built(bytes) == [raised |-> "", bytes |-> bytes]

BuildError(what) == [raised |-> what, bytes |-> <<>>]

\* webhook bot: _rcon_packet
rcon_packet(req_id, ptype, body) ==
    LET b == encode_replace(body)
        length == 4 + 4 + Len(b) + 2
    IN  Built(int32le(length) \o int32le(req_id) \o int32le(ptype)
              \o b \o <<0, 0>>)

\* a builder that counts the characters of the body, not its bytes
rcon_make_packet_chars(req_id, ptype, body) ==
    IF ~encodable(body) THEN BuildError("UnicodeEncodeError")
    ELSE Built(int32le(Len(body) + 10) \o int32le(req_id) \o int32le(ptype)
               \o encode_replace(body) \o <<0, 0>>)

\* time bot: _rcon_make_packet
rcon_make_packet(req_id, ptype, body) ==
    IF ~encodable(body) THEN BuildError("UnicodeEncodeError")
    ELSE LET data == encode_replace(body) \o <<0>>
             packet == int32le(req_id) \o int32le(ptype) \o data \o <<0>>
             size == Len(packet)
         IN  Built(int32le(size) \o packet)

\* the bytes of bytes[i], bytes[i+1], ... that continue the character led
\* by `lead`, at most `need` of them
RECURSIVE continuation(_, _, _, _, _)
continuation(bytes, i, lead, k, need) ==
    IF k > need \/ i > Len(bytes) THEN 0
    ELSE LET b == bytes[i]
             lo == IF k = 1 /\ lead = 224 THEN 160
                   ELSE IF k = 1 /\ lead = 240 THEN 144 ELSE 128
             hi == IF k = 1 /\ lead = 237 THEN 159
                   ELSE IF k = 1 /\ lead = 244 THEN 143 ELSE 191
         IN  IF b >= lo /\ b <= hi
             THEN 1 + continuation(bytes, i + 1, lead, k + 1, need)
             ELSE 0

\* the code point of a well-formed sequence of n bytes at bytes[i]
code_point(bytes, i, n) ==
    IF n = 1 THEN bytes[i]
    ELSE IF n = 2 THEN (bytes[i] - 192) * 64 + (bytes[i + 1] - 128)
    ELSE IF n = 3
         THEN (bytes[i] - 224) * 4096 + (bytes[i + 1] - 128) * 64
              + (bytes[i + 2] - 128)
    ELSE (bytes[i] - 240) * 262144 + (bytes[i + 1] - 128) * 4096
         + (bytes[i + 2] - 128) * 64 + (bytes[i + 3] - 128)

\* bytes.decode("utf-8", errors=...) from bytes[i] on: an ill-formed
\* sequence becomes `instead` (U+FFFD for "replace", nothing for "ignore")
RECURSIVE decode_from(_, _, _)
decode_from(bytes, i, instead) ==
    IF i > Len(bytes) THEN <<>>
    ELSE LET b == bytes[i]
             need == IF b < 128 THEN 0
                     ELSE IF b >= 194 /\ b <= 223 THEN 1
                     ELSE IF b >= 224 /\ b <= 239 THEN 2
                     ELSE IF b >= 240 /\ b <= 244 THEN 3
                     ELSE 0 - 1
         IN  IF need < 0 THEN instead \o decode_from(bytes, i + 1, instead)
             ELSE CHOOSE out \in
                 {IF got = need
                  THEN <<code_point(bytes, i, need + 1)>>
                       \o decode_from(bytes, i + need + 1, instead)
                  ELSE instead \o decode_from(bytes, i + got + 1, instead) :
                  got \in {continuation(bytes, i + 1, b, 1, need)}} : TRUE

REPLACEMENT == 65533

decode_replace(bytes) == decode_from(bytes, 1, <<REPLACEMENT>>)

decode_ignore(bytes) == decode_from(bytes, 1, <<>>)

\* the code points str.strip() removes, below 256
WHITESPACE == {9, 10, 11, 12, 13, 28, 29, 30, 31, 32, 133, 160}

\* str.strip() of a sequence of code points
RECURSIVE strip_text(_)
strip_text(text) ==
    IF text = <<>> THEN text
    ELSE IF Head(text) \in WHITESPACE THEN strip_text(Tail(text))
    ELSE IF text[Len(text)] \in WHITESPACE
         THEN strip_text(SubSeq(text, 1, Len(text) - 1))
    ELSE text

\* the text an RCON call returned, or the exception it raised
WireReturned(text) == [ok |-> TRUE, text |-> text, error |-> ""]

WireRaised(what) == [ok |-> FALSE, text |-> <<>>, error |-> what]

\* what one frame read gave: the exception raised, or the fields of the
\* frame and the bytes that follow it
Frame(rid, ptype, text, rest) ==
    [raised |-> "", rid |-> rid, ptype |-> ptype, body |-> text,
     rest |-> rest]

FrameError(what) ==
    [raised |-> what, rid |-> 0, ptype |-> 0, body |-> <<>>, rest |-> <<>>]

\* webhook bot: _rcon_recv on a socket that holds `stream`, after which
\* the peer is silent (a recv times out) or has closed (a recv returns b"")
rcon_recv(stream, ending) ==
    IF Len(stream) = 0
    THEN FrameError(IF ending = "eof" THEN "RCON: short read (len)"
                    ELSE "timed out")
    ELSE IF Len(stream) < 4 THEN FrameError("RCON: short read (len)")
    ELSE LET length == from_int32le(SubSeq(stream, 1, 4))
             after == SubSeq(stream, 5, Len(stream))
             complete == Len(after) >= length
             payload == IF length <= 0 THEN <<>>
                        ELSE IF complete THEN SubSeq(after, 1, length)
                        ELSE after
         IN  IF length > 0 /\ ~complete /\ ending # "eof"
             THEN FrameError("timed out")
             ELSE IF Len(payload) < 8
             THEN FrameError("RCON: short read (payload)")
             ELSE Frame(from_int32le(SubSeq(payload, 1, 4)),
                        from_int32le(SubSeq(payload, 5, 8)),
                        decode_replace(SubSeq(payload, 9, Len(payload) - 2)),
                        SubSeq(after, Len(payload) + 1, Len(after)))

\* webhook bot: the response loop of rcon_command with n frames left to
\* read, for the request id req_id2
RECURSIVE response_frames(_, _, _, _, _)
response_frames(n, stream, ending, req_id2, parts) ==
    IF n = 0 THEN WireReturned(strip_text(join(parts)))
    ELSE CHOOSE out \in
        {IF f.raised # "" THEN WireRaised(f.raised)
         ELSE IF f.rid # req_id2
         THEN response_frames(n - 1, f.rest, ending, req_id2, parts)
         ELSE IF f.ptype \in {RCON_TYPE_RESPONSE, RCON_TYPE_EXEC}
         THEN IF Len(f.body) = 0
              THEN WireReturned(strip_text(join(parts)))
              ELSE response_frames(n - 1, f.rest, ending, req_id2,
                                   Append(parts, f.body))
         ELSE response_frames(n - 1, f.rest, ending, req_id2, parts) :
         f \in {rcon_recv(stream, ending)}} : TRUE

\* webhook bot: rcon_command from the first frame read after the EXEC
\* packet was sent
response_wb(stream, ending) ==
    response_frames(EXEC_FRAMES, stream, ending, ExecId("wb"), <<>>)

MIN_PACKET_SIZE == 10     \* if size < 10

\* time bot: the parse loop of rcon_command over data, i bytes of which
\* have been parsed
RECURSIVE parse_packets(_, _, _)
parse_packets(data, i, out) ==
    IF i + 4 > Len(data) THEN out
    ELSE LET size == from_int32le(SubSeq(data, i + 1, i + 4))
             j == i + 4
         IN  IF size < MIN_PACKET_SIZE \/ j + size > Len(data) THEN out
             ELSE LET pkt == SubSeq(data, j + 1, j + size)
                      txt == decode_ignore(SubSeq(pkt, 9, Len(pkt) - 2))
                  IN  parse_packets(data, j + size,
                                    IF txt # <<>> THEN Append(out, txt)
                                    ELSE out)

\* time bot: rcon_command from the first reader.read after the EXEC packet
\* was sent; the chunks read until the idle timeout or the end of the
\* stream are the bytes of `stream`
response_tb(stream) ==
    IF stream = <<>> THEN WireReturned(<<>>)
    ELSE WireReturned(strip_text(join(parse_packets(stream, 0, <<>>))))

\* rcon_command of the program that runs
response(stream, ending) ==
    IF bot = "wb" THEN response_wb(stream, ending) ELSE response_tb(stream)

\* ---------------------------------------------------------------------
\* The RCON code on given bytes: the response to a command, whole or
\* split in two packets or malformed, and the packet builders
\* ---------------------------------------------------------------------
MaxTruncate == 4      \* bytes cut from the end of a truncated packet

\* bodies of a response, as bytes: ASCII, a space, and U+00E9 (195, 169)
WireBodies ==
    {<<97, 98>>, <<97, 32, 98>>, <<32, 97>>, <<195, 169>>,
     <<97, 195, 169>>, <<97, 98, 99, 100>>}

\* declared lengths that are negative or below the minimum of 10
BadLengths == {0 - 1, 0, 8, 9}

\* request ids, packet types and bodies given to the builders; the bodies
\* hold code points of one to four UTF-8 bytes and the lone surrogate
\* U+DC80, which os.getenv returns for an undecodable byte
WireIds == {1, 2, 1234, 5678, 0 - 1, 2147483647}

WireTypes == {RCON_TYPE_RESPONSE, RCON_TYPE_EXEC, RCON_TYPE_AUTH}

WireTexts ==
    {<<>>, <<97>>, <<97, 233>>, <<8364>>, <<128512>>, <<56448>>,
     <<97, 56448, 98>>}

\* the bytes of a packet as the server sends it
server_packet(id, ptype, bytes) ==
    int32le(Len(bytes) + 10) \o int32le(id) \o int32le(ptype)
    \o bytes \o <<0, 0>>

\* the empty packet with the command's id that ends a response
terminator ==
    IF wire.terminated
    THEN server_packet(ExecId(bot), RCON_TYPE_RESPONSE, <<>>) ELSE <<>>

\* the response in one packet
unsplit_stream ==
    server_packet(ExecId(bot), RCON_TYPE_RESPONSE, wire.body) \o terminator

\* the same bytes in two packets, the first with wire.cut bytes
split_stream ==
    server_packet(ExecId(bot), RCON_TYPE_RESPONSE,
                  SubSeq(wire.body, 1, wire.cut))
    \o server_packet(ExecId(bot), RCON_TYPE_RESPONSE,
                     SubSeq(wire.body, wire.cut + 1, Len(wire.body)))
    \o terminator

\* a packet the peer stopped sending before its end, or one that declares
\* a length it must not
malformed_stream ==
    LET pkt == server_packet(ExecId(bot), RCON_TYPE_RESPONSE, wire.body)
    IN  IF wire.fault.what = "truncated"
        THEN SubSeq(pkt, 1, Len(pkt) - wire.fault.arg)
        ELSE int32le(wire.fault.arg) \o SubSeq(pkt, 5, Len(pkt))

\* one experiment: a response and where to split it, a malformed packet,
\* or the inputs of the builders
InitWire ==
    /\ now = Zero
    /\ state_wb = None /\ file_wb = None
    /\ state_tb = None /\ file_tb = None
    /\ info = None /\ snap = None
    /\ calls = 0
    /\ bot \in {"wb", "tb"}
    /\ config = [time_channel |-> TRUE, announce_channel |-> TRUE]
    /\ InitBots
    /\ rates = ShippedRates
    /\ run = NoRun
    /\ rcon = NoRcon
    /\ pub = NoPub
    /\ vc = NoVc
    /\ tasks = NoTasks
    /\ \/ \E b \in WireBodies, t \in BOOLEAN, e \in {"silent", "eof"} :
          \E k \in 1..(Len(b) - 1) :
             wire = [NoWire EXCEPT !.kind = "response", !.body = b,
                                   !.cut = k, !.terminated = t, !.ending = e]
       \/ \E b \in WireBodies, e \in {"silent", "eof"} :
          \E f \in {[what |-> "truncated", arg |-> n] : n \in 1..MaxTruncate}
                   \cup {[what |-> "length", arg |-> n] : n \in BadLengths} :
             wire = [NoWire EXCEPT !.kind = "malformed", !.body = b,
                                   !.ending = e, !.fault = f]
       \/ \E id \in WireIds, ty \in WireTypes, tx \in WireTexts :
             wire = [NoWire EXCEPT !.kind = "build", !.req_id = id,
                                   !.ptype = ty, !.text = tx]

\* the response arrives in two packets
send_split ==
    /\ wire.kind = "response"
    /\ wire' = [wire EXCEPT !.split = response(split_stream, wire.ending)]
    /\ UNCHANGED <<clock_vars, bot_vars, config_vars, rcon_vars, pub_vars, tasks>>

\* the response arrives in one packet
send_unsplit ==
    /\ wire.kind = "response"
    /\ wire' = [wire EXCEPT !.unsplit = response(unsplit_stream, wire.ending)]
    /\ UNCHANGED <<clock_vars, bot_vars, config_vars, rcon_vars, pub_vars, tasks>>

\* the malformed packet arrives
send_malformed ==
    /\ wire.kind = "malformed"
    /\ wire' = [wire EXCEPT
                  !.malformed = response(malformed_stream, wire.ending)]
    /\ UNCHANGED <<clock_vars, bot_vars, config_vars, rcon_vars, pub_vars, tasks>>

\* the two builders are called with the same arguments
build_packets ==
    /\ wire.kind = "build"
    /\ wire' = [wire EXCEPT
                  !.built = [wb |-> rcon_packet(wire.req_id, wire.ptype,
                                                wire.text),
                             tb |-> rcon_make_packet(wire.req_id, wire.ptype,
                                                     wire.text)]]
    /\ UNCHANGED <<clock_vars, bot_vars, config_vars, rcon_vars, pub_vars, tasks>>

NextWire ==
    \/ send_split
    \/ send_unsplit
    \/ send_malformed
    \/ build_packets

SpecWire == InitWire /\ [][NextWire]_vars

\* C12: a response of two packets with the command's id gives the text
\* that the same bytes give as one packet, and when the call returns, that
\* text is the bytes of the two bodies in arrival order, decoded and
\* stripped.
C12_Reassembled ==
    (wire.split.error # "pending" /\ wire.unsplit.error # "pending")
        => /\ wire.split = wire.unsplit
           /\ wire.split.ok
                 => wire.split.text = strip_text(decode_replace(wire.body))

\* the same when the two packets are cut between two characters
C12_ReassembledAtCharacters ==
    (/\ wire.split.error # "pending" /\ wire.unsplit.error # "pending"
     /\ ~(wire.body[wire.cut] >= 194 /\ wire.body[wire.cut + 1] >= 128))
        => /\ wire.split = wire.unsplit
           /\ wire.split.ok
                 => wire.split.text = strip_text(decode_replace(wire.body))

\* the bodies the client has received since the command was sent, joined
C13_Received ==
    IF bot = "wb" THEN join(rcon.parts) ELSE join(bodies(rcon.parts))

\* C13: once the server has answered the command and keeps the connection
\* open, the call ends as a success that returns the bodies received so
\* far, whether the response ended with an empty packet or with silence.
C13_CompleteOnIdle ==
    (/\ rcon.pc = "done"
     /\ Len(rcon.sent) = 2
     /\ rcon.answered = 2
     /\ ~rcon.eof)
        => rcon.result = Returned(strip(C13_Received))

\* the same of the time bot alone
C13_CompleteOnIdle_tb == bot = "tb" => C13_CompleteOnIdle

\* C14: the text a call returns holds nothing of a packet whose id is not
\* the command's: the text "x" of the late reply to the AUTH packet is not
\* in it.
C14_OnlyMatchingIds ==
    rcon.result.ok
        => \A i \in 1..Len(rcon.result.text) : rcon.result.text[i] # "x"

\* the same of the webhook bot alone
C14_OnlyMatchingIds_wb == bot = "wb" => C14_OnlyMatchingIds

\* C15: whenever a call has ended its connection is not open, on every
\* path, and a later call starts on a connection of its own, on which
\* nothing but its AUTH packet has been sent and nothing received.
C15_AlwaysClosed ==
    [][/\ rcon'.pc = "done" => rcon'.conn # "open"
       /\ (rcon.pc = "done" /\ rcon'.pc = "auth")
             => /\ rcon.conn # "open"
                /\ rcon'.conn = "open"
                /\ Len(rcon'.sent) = 1
                /\ rcon'.inbox = <<>>
                /\ rcon'.answered = 0]_vars

\* a call that had sent its command ended by a failure, its connection
\* closed
C15_Witness ==
    /\ rcon.pc = "done"
    /\ rcon.conn = "closed"
    /\ Len(rcon.sent) = 2
    /\ ~rcon.result.ok

\* C16: a call that received a packet of malformed or truncated framing
\* ends by a failure.
C16_MalformedFails ==
    (wire.kind = "malformed" /\ wire.malformed.error # "pending")
        => ~wire.malformed.ok

\* no byte of a malformed or truncated packet is returned as text
C16_NothingReturned ==
    (wire.kind = "malformed" /\ wire.malformed.ok)
        => wire.malformed.text = <<>>

\* the webhook bot fails on a declared length below zero
C16_NegativeLength_wb ==
    (/\ bot = "wb"
     /\ wire.kind = "malformed"
     /\ wire.fault = [what |-> "length", arg |-> 0 - 1]
     /\ wire.malformed.error # "pending")
        => ~wire.malformed.ok

\* the builders have been called
C17_BuildersCalled == wire.kind = "build" /\ wire.built.wb.raised # "pending"

\* the packet p is: length, id, type, the UTF-8 bytes of the text, two
\* zero bytes, the length counting everything after the length field
C17_Layout(p) ==
    /\ Len(p) >= 14
    /\ from_int32le(SubSeq(p, 1, 4)) = (Len(p) - 14) + 10
    /\ from_int32le(SubSeq(p, 5, 8)) = wire.req_id
    /\ from_int32le(SubSeq(p, 9, 12)) = wire.ptype
    /\ decode_replace(SubSeq(p, 13, Len(p) - 2)) = wire.text
    /\ SubSeq(p, Len(p) - 1, Len(p)) = <<0, 0>>

\* C17 as stated: for every id, type and body both builders return a
\* packet of the layout, and the same one.
C17_SameBytes ==
    C17_BuildersCalled
        => /\ wire.built.wb.raised = ""
           /\ wire.built.tb.raised = ""
           /\ C17_Layout(wire.built.wb.bytes)
           /\ wire.built.tb = wire.built.wb

\* C17: for every id, every type and every body UTF-8 can encode, both
\* builders return a packet of the layout, and the same one.
C17_SameBytesEncodable ==
    (C17_BuildersCalled /\ encodable(wire.text))
        => /\ wire.built.wb.raised = ""
           /\ wire.built.tb.raised = ""
           /\ C17_Layout(wire.built.wb.bytes)
           /\ wire.built.tb = wire.built.wb

\* both builders returned the packet of a body with a two-byte character
\* and the id -1
C17_Witness ==
    /\ C17_BuildersCalled
    /\ wire.text = <<97, 233>>
    /\ wire.req_id = 0 - 1
    /\ wire.built.tb.bytes =
          <<13, 0, 0, 0, 255, 255, 255, 255>> \o int32le(wire.ptype)
          \o <<97, 195, 169, 0, 0>>

\* on a body with a lone surrogate _rcon_packet sends "?" in its place and
\* _rcon_make_packet raises
C17_Surrogate ==
    (C17_BuildersCalled /\ ~encodable(wire.text))
        => /\ wire.built.wb.raised = ""
           /\ wire.built.tb.raised = "UnicodeEncodeError"

\* ---------------------------------------------------------------------
\* The two background tasks on the event loop: the clock loop
\* (time_webhook_loop / time_loop) and status_loop.  A task runs from one
\* await to the next without interruption; tasks.status is the await at
\* which status_loop stands:
\*   "due"      ready to start a cycle
\*   "nitrado"  time bot: awaiting the Nitrado request of get_server_status
\*   "query"    webhook bot: inside the UDP query of query_a2s_info
\*   "rcon"     inside rcon_command, waiting on connect or on a read
\*   "publish"  about to publish the status (webhook, channel name)
\*   "sleep"    in asyncio.sleep
\*   "stopped"  ended by an exception
\* The clock loop's iteration is one step here; what it computes and
\* publishes is the subject of Spec.
\* ---------------------------------------------------------------------
MaxCycles == 2        \* cycles and clock iterations counted up to this

\* how an RCON call ends
RconOutcomes == {"ok", "connect", "timeout", "auth", "protocol"}

\* a counter of cycles, kept within the bound
Counted(n) == IF n < MaxCycles THEN n + 1 ELSE n

\* the thread of the event loop is inside a synchronous call: the webhook
\* bot's status_loop calls get_server_status(), and with it the blocking
\* sockets of query_a2s_info and rcon_command, without an await
loop_blocked == bot = "wb" /\ tasks.status \in {"query", "rcon"}

\* the webhook bot tries RCON only with ARK_RCON_PORT and ARK_RCON_PASSWORD
\* set; the time bot refuses to start without its RCON settings
InitLoops ==
    /\ now = Zero
    /\ state_wb = None /\ file_wb = None
    /\ state_tb = None /\ file_tb = None
    /\ info = None /\ snap = None
    /\ calls = 0
    /\ bot \in {"wb", "tb"}
    /\ config = [time_channel |-> TRUE, announce_channel |-> TRUE]
    /\ InitBots
    /\ rates = ShippedRates
    /\ run = NoRun
    /\ rcon = NoRcon
    /\ pub = NoPub
    /\ vc = NoVc
    /\ wire = NoWire
    /\ \E c \in BOOLEAN :
          /\ bot = "tb" => c
          /\ tasks = [NoTasks EXCEPT !.configured = c]

\* the asyncio.sleep of the clock loop is over
clock_wake ==
    /\ tasks.time = "sleep"
    /\ tasks' = [tasks EXCEPT !.time = "due"]
    /\ UNCHANGED <<clock_vars, bot_vars, config_vars, rcon_vars, pub_vars, wire>>

\* the event loop runs one iteration of the clock loop, up to its sleep
clock_step ==
    /\ tasks.time = "due"
    /\ ~loop_blocked
    /\ tasks' = [tasks EXCEPT !.time = "sleep", !.ticks = Counted(@)]
    /\ UNCHANGED <<clock_vars, bot_vars, config_vars, rcon_vars, pub_vars, wire>>

\* status_loop starts a cycle: the time bot awaits the Nitrado request, the
\* webhook bot enters the UDP query
status_loop ==
    /\ tasks.status = "due"
    /\ tasks' = [tasks EXCEPT
                   !.status = IF bot = "tb" THEN "nitrado" ELSE "query",
                   !.cycle = Counted(@)]
    /\ UNCHANGED <<clock_vars, bot_vars, config_vars, rcon_vars, pub_vars, wire>>

\* the first query of the cycle ends.  Time bot: the Nitrado request
\* answers and rcon_command is called, or it raises and nothing catches
\* it.  Webhook bot: the UDP query answers, or it fails and rcon_command is
\* called if RCON is configured
get_server_status ==
    /\ \/ /\ bot = "tb"
          /\ tasks.status = "nitrado"
          /\ \E answered \in BOOLEAN :
                tasks' = IF answered
                         THEN [tasks EXCEPT !.status = "rcon", !.online = TRUE]
                         ELSE [tasks EXCEPT !.status = "stopped",
                                            !.stopped = "http"]
       \/ /\ bot = "wb"
          /\ tasks.status = "query"
          /\ \E online \in BOOLEAN :
                tasks' = [tasks EXCEPT
                            !.online = online,
                            !.status = IF ~online /\ tasks.configured
                                       THEN "rcon" ELSE "publish"]
    /\ UNCHANGED <<clock_vars, bot_vars, config_vars, rcon_vars, pub_vars, wire>>

\* an exception of rcon_command that nothing catches ends status_loop
rcon_attempt_uncaught(outcome) ==
    IF outcome = "ok"
    THEN [tasks EXCEPT !.status = "publish", !.outcome = outcome,
                       !.failed = FALSE]
    ELSE [tasks EXCEPT !.status = "stopped", !.stopped = "rcon",
                       !.outcome = outcome, !.failed = TRUE]

\* `try: rcon_command(...) except Exception`: the cycle goes on whatever
\* the outcome of the call
rcon_attempt(outcome) ==
    [tasks EXCEPT !.status = "publish", !.outcome = outcome,
                  !.failed = outcome # "ok"]

\* the RCON call ends, by a return or by an exception
rcon_command_ends ==
    /\ tasks.status = "rcon"
    /\ \E outcome \in RconOutcomes : tasks' = rcon_attempt(outcome)
    /\ UNCHANGED <<clock_vars, bot_vars, config_vars, rcon_vars, pub_vars, wire>>

\* the status is published and the task goes to sleep.  Time bot:
\* upsert_webhook raises on a failed request and nothing catches it;
\* maybe_update_vc catches.  Webhook bot: set_channel_name catches
publish_status ==
    /\ tasks.status = "publish"
    /\ \E posted \in BOOLEAN :
          /\ bot = "wb" => posted
          /\ tasks' = IF posted
                      THEN [tasks EXCEPT !.status = "sleep"]
                      ELSE [tasks EXCEPT !.status = "stopped",
                                         !.stopped = "http"]
    /\ UNCHANGED <<clock_vars, bot_vars, config_vars, rcon_vars, pub_vars, wire>>

\* the asyncio.sleep of status_loop is over
status_wake ==
    /\ tasks.status = "sleep"
    /\ tasks' = [tasks EXCEPT !.status = "due"]
    /\ UNCHANGED <<clock_vars, bot_vars, config_vars, rcon_vars, pub_vars, wire>>

NextLoops ==
    \/ clock_wake
    \/ clock_step
    \/ status_loop
    \/ get_server_status
    \/ rcon_command_ends
    \/ publish_status
    \/ status_wake

SpecLoops == InitLoops /\ [][NextLoops]_vars

\* the event loop runs every task that is ready, every sleep ends, and
\* every call on a socket ends by its answer or by its timeout
SpecLoopsFair ==
    /\ SpecLoops
    /\ WF_vars(clock_wake)
    /\ WF_vars(clock_step)
    /\ WF_vars(status_loop)
    /\ WF_vars(get_server_status)
    /\ WF_vars(rcon_command_ends)
    /\ WF_vars(publish_status)
    /\ WF_vars(status_wake)

\* the RCON call of the cycle has just failed
C18_Failed == tasks.failed /\ tasks.status = "publish"

\* status_loop sleeps at the end of a cycle whose RCON call failed
C18_Sleeps == tasks.failed /\ tasks.status = "sleep"

C19_ClockDueDuringRcon == tasks.status = "rcon" /\ tasks.time = "due"

\* C19: whenever the clock loop is due while an RCON call of status_loop
\* is waiting, the event loop can run the clock loop's next iteration.
C19_ClockNotStalled == C19_ClockDueDuringRcon => ENABLED clock_step

\* the same for the time bot alone, whose rcon_command awaits its
\* connection and its reads
C19_ClockNotStalled_tb ==
    (bot = "tb" /\ C19_ClockDueDuringRcon) => ENABLED clock_step

\* the step is a clock query of the webhook bot (time_webhook_loop, /day)
C20_Query_wb == bot = "wb" /\ last'.handler \in {"time_webhook_loop", "day_cmd"}

\* the step is a clock query of the time bot (time_loop)
C20_Query_tb == bot = "tb" /\ last'.handler = "time_loop"

\* C20: the calibration in memory changes only by an accepted set-time
\* command, which replaces all five fields by its own epoch, year, day,
\* hour and minute in one step; and every clock query, wherever it falls
\* among the commands, computes from the calibration in memory as it is
\* and leaves it as it is: the whole old one or the whole new one.
C20_WholeCalibration ==
    [][/\ state_wb' # state_wb
          => /\ last'.handler = "settime_cmd"
             /\ state_wb' = [real_epoch |-> now, year |-> last'.args[2],
                             day |-> last'.args[3], hour |-> last'.args[4],
                             minute |-> last'.args[5]]
       /\ state_tb' # state_tb
          => /\ last'.handler = "settime"
             /\ state_tb' = [epoch |-> now, year |-> last'.args[2],
                             day |-> last'.args[3], hour |-> last'.args[4],
                             minute |-> last'.args[5]]
       /\ C20_Query_wb
          => /\ state_wb' = state_wb
             /\ info' = calculate_time(state_wb, elapsed_wb(now))
       /\ C20_Query_tb
          => /\ state_tb' = state_tb
             /\ snap' = calculate_time_snapshot(state_tb, elapsed_tb(now))]_vars

\* the clock loop has computed the time from a calibration that a set-time
\* command wrote after real time had passed
C20_Witness ==
    /\ last.handler \in {"time_webhook_loop", "time_loop"}
    /\ \/ bot = "wb" /\ state_wb # None /\ info # None
             /\ state_wb.real_epoch # Zero
       \/ bot = "tb" /\ state_tb # None /\ snap # None
             /\ state_tb.epoch # Zero

\* ---------------------------------------------------------------------
\* What the clock loops publish: the message of the time webhook on
\* Discord's side, the new-day announcements and the ten-minute buckets.
\* The in-game time the loops observe is given here as PubTimes[pub.at],
\* a walk through sample instants that a set-time command can move; what
\* calculate_time and calculate_time_snapshot compute is the subject of
\* SpecClock.
\* ---------------------------------------------------------------------
MaxSetTimes == 1      \* set-time commands that are followed

\* in-game instants <<year, day, minute_of_day>>, in the order of time
PubTimes ==
    << <<1, 1, 1430>>, <<1, 2, 0>>, <<1, 2, 7>>, <<1, 2, 10>>, <<1, 3, 0>> >>

\* the dict returned by calculate_time / the tuple returned by
\* calculate_time_snapshot at the in-game instant t
TimeInfo(t) ==
    [day |-> t[2], year |-> t[1], hour |-> t[3] \div 60, minute |-> t[3] % 60,
     minute_of_day |-> t[3], is_day |-> is_day(t[3])]

\* what Discord answers to a request of the bot: a message that exists is
\* edited, a deleted one gives 404, a POST creates a message with an id of
\* its own; any request can fail on the way
Answers(stored, http, new_id) ==
    IF stored = NoId
    THEN http \in {"ok", "error"} /\ (http = "ok" => new_id \notin pub.used)
    ELSE IF stored \in pub.messages THEN http \in {"ok", "error"}
    ELSE http \in {"404", "error"}

\* the requests of one iteration and their answers
Requests(fx, http, http_again) ==
    IF {"webhook PATCH", "webhook POST"} \subseteq fx
    THEN [patch |-> http, post |-> http_again]
    ELSE [patch |-> IF "webhook PATCH" \in fx THEN http ELSE "none",
          post |-> IF "webhook POST" \in fx THEN http ELSE "none"]

\* Discord's side and the record of what was published, after an iteration
\* that observed t, issued the requests rq and was left with the id `stored`
Published(t, rq, stored, channel_found) ==
    [pub EXCEPT
       !.messages = IF rq.post = "ok" THEN @ \cup {stored} ELSE @,
       !.used = IF rq.post = "ok" THEN @ \cup {stored} ELSE @,
       !.requests = rq,
       !.observed = <<t[1], t[2]>>,
       !.moved = FALSE,
       !.channel = channel_found,
       !.posted = IF rq.patch # "none" \/ rq.post # "none"
                  THEN @ \cup {<<t[1], t[2], t[3] \div 10>>} ELSE @]

InitPublish ==
    /\ now = Zero
    /\ state_wb = None /\ file_wb = None
    /\ state_tb = None /\ file_tb = None
    /\ info = None /\ snap = None
    /\ calls = 0
    /\ bot \in {"wb", "tb"}
    /\ config \in [time_channel : {TRUE}, announce_channel : BOOLEAN]
    /\ bot = "tb" => config.announce_channel
    /\ InitBots
    /\ InitShipped

\* in-game time passes
minutes_pass ==
    /\ pub.at < Len(PubTimes)
    /\ pub' = [pub EXCEPT !.at = @ + 1, !.requests = NoPub.requests]
    /\ UNCHANGED <<clock_vars, bot_vars, config_vars, rcon_vars, io_vars, vc>>

\* a member of the guild deletes the message of the time webhook
message_deleted ==
    /\ \E id \in pub.messages :
          pub' = [pub EXCEPT !.messages = @ \ {id},
                             !.requests = NoPub.requests]
    /\ UNCHANGED <<clock_vars, bot_vars, config_vars, rcon_vars, io_vars, vc>>

\* an accepted /settime moves the in-game time to the instant at index k;
\* the time bot forgets its last bucket
settime_moves(k) ==
    /\ pub.sets < MaxSetTimes
    /\ k # pub.at
    /\ pub' = [pub EXCEPT !.at = k, !.sets = @ + 1, !.posted = {},
                          !.before = pub.posted,
                          !.moved = TRUE, !.requests = NoPub.requests]
    /\ last' = Ran(IF bot = "wb" THEN "settime_cmd" ELSE "settime", <<k>>)
    /\ mem_tb' = IF bot = "tb"
                 THEN [mem_tb EXCEPT !.last_time_bucket = NoTuple]
                 ELSE mem_tb
    /\ effects' = {}
    /\ UNCHANGED <<clock_vars, config_vars, rcon_vars, io_vars, vc, bot,
                   config, mem_wb, reply>>

\* one iteration of time_webhook_loop at the in-game instant PubTimes[pub.at]
time_webhook_publishes ==
    /\ bot = "wb"
    /\ last' = Ran("time_webhook_loop", <<>>)
    /\ \E http \in HttpOutcomes, new_id \in MessageIds,
          channel_found \in BOOLEAN :
          /\ Answers(mem_wb.webhook_message_id, http, new_id)
          /\ \E done \in {time_webhook_body(TimeInfo(PubTimes[pub.at]), http,
                                            new_id, channel_found)} :
                /\ mem_wb' = done.mem
                /\ effects' = done.effects
                /\ pub' = Published(PubTimes[pub.at],
                                    Requests(done.effects, http, http),
                                    done.mem.webhook_message_id, channel_found)
    /\ info' = TimeInfo(PubTimes[pub.at])
    /\ UNCHANGED <<config_vars, rcon_vars, io_vars, vc, now, state_wb, file_wb,
                   state_tb, file_tb, snap, calls, bot, config, mem_tb, reply>>

\* one iteration of time_loop at the in-game instant PubTimes[pub.at]
time_loop_publishes ==
    /\ bot = "tb"
    /\ mem_tb.running
    /\ last' = Ran("time_loop", <<>>)
    /\ \E http \in HttpOutcomes, http_again \in {"ok", "error"},
          new_id \in MessageIds, channel_found \in BOOLEAN :
          /\ Answers(mem_tb.message_id_time, http, new_id)
          /\ new_id \notin pub.used
          /\ \E done \in {time_loop_body(TimeInfo(PubTimes[pub.at]), http,
                                         http_again, new_id, channel_found)} :
                /\ mem_tb' = done.mem
                /\ effects' = done.effects
                /\ pub' = Published(PubTimes[pub.at],
                                    Requests(done.effects, http, http_again),
                                    done.mem.message_id_time, channel_found)
    /\ snap' = TimeInfo(PubTimes[pub.at])
    /\ UNCHANGED <<config_vars, rcon_vars, io_vars, vc, now, state_wb, file_wb,
                   state_tb, file_tb, info, calls, bot, config, mem_wb, reply>>

NextPublish ==
    \/ minutes_pass
    \/ message_deleted
    \/ \E k \in 1..Len(PubTimes) : settime_moves(k)
    \/ time_webhook_publishes
    \/ time_loop_publishes

SpecPublish == InitPublish /\ [][NextPublish]_vars

\* C21: the time webhook never has two messages at once: a message is
\* created only when no message of the bot exists, whatever requests
\* failed before.
C21_SingleMessage == Cardinality(pub.messages) <= 1

\* the same for the time bot alone
C21_SingleMessage_tb == bot = "tb" => Cardinality(pub.messages) <= 1

\* a POST is sent only when no id is stored or the PATCH of the stored id
\* was answered 404
C21_PostOnlyWithoutId ==
    [][pub'.requests.post # "none"
          => \/ bot = "wb" /\ mem_wb.webhook_message_id = NoId
             \/ bot = "tb" /\ mem_tb.message_id_time = NoId
             \/ pub'.requests.patch = "404"]_vars

\* the step is one iteration of the clock loop
C22_Iteration ==
    /\ pub'.at = pub.at
    /\ pub'.sets = pub.sets
    /\ pub.messages \subseteq pub'.messages

\* the <<year, day>> the iteration observes
C22_Day == <<PubTimes[pub.at][1], PubTimes[pub.at][2]>>

\* the iteration sends the new-day message exactly when the day it
\* observes is not the day observed by the iteration before it
C22_Announces ==
    "announce" \in effects' <=> (pub.observed # NoTuple /\ C22_Day # pub.observed)

\* C22: with the announce channel configured and found, every iteration
\* that observes another day than the iteration before it sends one new-day
\* message, and an iteration that observes the same day sends none; also
\* after a set-time command that moved the clock to an earlier date.
C22_AnnouncedOnce ==
    [][(C22_Iteration /\ config.announce_channel /\ pub'.channel)
          => C22_Announces]_vars

\* the same for the webhook bot alone
C22_AnnouncedOnce_wb ==
    [][(bot = "wb" /\ C22_Iteration /\ config.announce_channel
        /\ pub'.channel) => C22_Announces]_vars

\* the same for the days that begin at midnight, with no set-time command
\* since the iteration before
C22_AnnouncedAtMidnight ==
    [][(C22_Iteration /\ ~pub.moved /\ config.announce_channel
        /\ pub'.channel) => C22_Announces]_vars

\* ---------------------------------------------------------------------
\* advance_minutes_piecewise as a function of its arguments (webhook bot)
\* ---------------------------------------------------------------------
MaxStartDay == 2      \* start_day ranges over 1..MaxStartDay
MaxSegments == 11     \* short elapsed times: 0..MaxSegments steps of 3000 s
MaxRealYears == 21    \* the long elapsed time, in years of 365 real days

\* start_minute_of_day: midnight, sunrise, midday, sunset, 23:59
StartMinutes == {0, DAY_START_MIN, 700, DAY_END_MIN, 1439}

\* <<start_day, start_minute_of_day, elapsed_real_seconds>> of a call;
\* elapsed_real_seconds is time.time() - state["real_epoch"], which is as
\* long as the epoch stored in state.json is old
AdvanceArguments ==
    {<<d, m, Seconds(3000 * k)>> :
        d \in 1..MaxStartDay, m \in StartMinutes, k \in 0..MaxSegments}
    \cup {<<1, 0, Seconds(MaxRealYears * 365 * 86400)>>}

\* day, minute_float and remaining as the function's first three
\* statements leave them
InitAdvance ==
    /\ now = Zero
    /\ state_wb = None
    /\ state_tb = None
    /\ file_wb = None
    /\ file_tb = None
    /\ info = None
    /\ snap = None
    /\ calls = 0
    /\ bot = "wb"
    /\ config = [time_channel |-> TRUE, announce_channel |-> TRUE]
    /\ InitBots
    /\ rates = ShippedRates
    /\ \E a \in AdvanceArguments :
          run = [pc |-> "called", iterations |-> 0,
                 s |-> [i |-> 0, day |-> a[1], minute_float |-> a[2],
                        remaining |-> Signed(a[3])]]
    /\ rcon = NoRcon
    /\ wire = NoWire
    /\ tasks = NoTasks
    /\ pub = NoPub
    /\ vc = NoVc

\* the for loop runs to its end and the function returns; s keeps the
\* locals as they are at the return statement
advance_returns ==
    /\ run.pc = "called"
    /\ \E fin \in {advance_loop(LoopDepth, run.s)} :
          run' = [pc |-> "returned", s |-> fin, iterations |-> fin.i]
    /\ UNCHANGED <<clock_vars, bot_vars, rates, rcon_vars, io_vars, pub_vars>>

NextAdvance == advance_returns

SpecAdvance == InitAdvance /\ [][NextAdvance]_vars

\* C23: advance_minutes_piecewise returns only when no real time remains:
\* at the return statement remaining is not positive, whatever the elapsed
\* time, so the safety limit of the for loop never ends it early
C23_ReturnsWhenConsumed ==
    run.pc = "returned" => ~Positive(run.s.remaining)

\* C23: a call that needs fewer iterations than the safety limit returns
\* with no real time left
C23_ShortOfLimit ==
    (run.pc = "returned" /\ run.iterations < SAFETY_LIMIT)
        => ~Positive(run.s.remaining)

\* ---------------------------------------------------------------------
\* The order of an RCON session (SpecRcon)
\* ---------------------------------------------------------------------
\* the position of a call in the session: Disconnected, Authenticating
\* (connected, AUTH sent), Executing (authenticated, EXEC sent), Closed
SessionPhase(pc) ==
    IF pc = "idle" THEN 0 ELSE IF pc = "auth" THEN 2
    ELSE IF pc = "exec" THEN 4 ELSE 5

\* the step begins a new call of rcon_command
C24_NewCall == rcon.pc \in {"idle", "done"}

\* an AUTH_RESPONSE the server has sent is still unread
C24_Unread == \E i \in DOMAIN rcon.inbox :
                 rcon.inbox[i].type = RCON_TYPE_AUTH_RESP

\* C24: the EXEC packet is sent only after an AUTH_RESPONSE with an id
\* other than -1 has been received on that connection: whenever the EXEC
\* packet has been sent, the server has answered the AUTH packet with the
\* request's id and the client has read that answer.
C24_ExecAfterAuth ==
    Len(rcon.sent) >= 2
        => /\ rcon.sent[2].type = RCON_TYPE_EXEC
           /\ rcon.auth_reply = rcon.sent[1].id
           /\ rcon.auth_reply # 0 - 1
           /\ ~C24_Unread

\* C24: the same of the webhook bot alone
C24_ExecAfterAuth_wb == bot = "wb" => C24_ExecAfterAuth

\* C24: a call moves through the session in order, Disconnected,
\* Authenticating, Executing, Closed, and never back
C24_InOrder ==
    [][~C24_NewCall => SessionPhase(rcon'.pc) >= SessionPhase(rcon.pc)]_vars

\* C24: no packet is sent on a closed connection: once a call has ended,
\* packets are sent only by a new call, on its own connection
C24_SilentWhenClosed ==
    [][(rcon.pc = "done" /\ rcon'.sent # rcon.sent)
          => \/ rcon'.sent = <<>>
             \/ /\ rcon'.conn = "open" /\ rcon'.pc = "auth"
                /\ rcon'.sent = <<Packet(AuthId(bot), RCON_TYPE_AUTH,
                                         RCON_PASSWORD)>>]_vars

\* ---------------------------------------------------------------------
\* The two clock functions compared (SpecClock)
\* ---------------------------------------------------------------------
\* C25: calculate_time_snapshot of the time bot and calculate_time of the
\* webhook bot, given the same calibration and queried at the same instant,
\* return the same year, day, hour and minute.
C25_SameClock ==
    info # None
        => /\ snap.year = info.year /\ snap.day = info.day
           /\ snap.hour = info.hour /\ snap.minute = info.minute

\* C25: the same at whole seconds of elapsed time, where the minute in
\* progress is a partial one
C25_SameClockAtSeconds ==
    (info # None /\ now \in {Seconds(n) : n \in 0..MaxSeconds})
        => /\ snap.year = info.year /\ snap.day = info.day
           /\ snap.hour = info.hour /\ snap.minute = info.minute

\* ---------------------------------------------------------------------
\* Responses of many packets (webhook bot and time bot)
\* ---------------------------------------------------------------------
MaxParts == 11        \* packets of text in one response, at most

\* n packets
RECURSIVE Repeat(_, _)
Repeat(pkt, n) == IF n = 0 THEN <<>> ELSE <<pkt>> \o Repeat(pkt, n - 1)

\* what the simulated server answers to the command when the output is
\* long: n packets of text and the empty terminator, or packets of another
\* request id (late replies to the AUTH packet) before one packet of text
\* and the terminator
LongReplies(auth_id, id) ==
    {Repeat(Packet(id, RCON_TYPE_RESPONSE, <<"a">>), n)
        \o <<Packet(id, RCON_TYPE_RESPONSE, <<>>)>> : n \in 3..MaxParts}
    \cup {Repeat(Packet(auth_id, RCON_TYPE_RESPONSE, <<"x">>), n - 1)
             \o <<Packet(id, RCON_TYPE_RESPONSE, <<"a">>),
                  Packet(id, RCON_TYPE_RESPONSE, <<>>)>> : n \in 3..MaxParts}

\* the server, having accepted the AUTH packet, answers the command with
\* a long response; served keeps what it sent
server_long_reply ==
    /\ rcon.conn = "open" /\ ~rcon.eof
    /\ rcon.answered = 1 /\ Len(rcon.sent) = 2
    /\ rcon.auth_reply = rcon.sent[1].id
    /\ \E rep \in LongReplies(rcon.sent[1].id, rcon.sent[2].id) :
          rcon' = [rcon EXCEPT !.inbox = rcon.inbox \o rep, !.answered = 2,
                               !.served = rep]
    /\ UNCHANGED <<clock_vars, bot_vars, config_vars, io_vars, pub_vars>>

NextFrames == NextRcon \/ server_long_reply

SpecFrames == InitRcon /\ [][NextFrames]_vars

\* the bodies of the packets of request id among pkts that come before the
\* first empty packet of that id
RECURSIVE C26_Expected(_, _)
C26_Expected(pkts, id) ==
    IF pkts = <<>> THEN <<>>
    ELSE IF Head(pkts).id # id THEN C26_Expected(Tail(pkts), id)
    ELSE IF Head(pkts).body = <<>> THEN <<>>
    ELSE <<Head(pkts).body>> \o C26_Expected(Tail(pkts), id)

\* C26: when rcon_command of the webhook bot returns, the text returned is
\* every body the server sent with the command's id before the empty
\* terminator, joined in order and stripped, whatever the number of
\* packets and of packets of other ids among them.
C26_EveryBody ==
    (bot = "wb" /\ rcon.pc = "done" /\ rcon.result.ok /\ rcon.served # <<>>)
        => rcon.result.text
              = strip(join(C26_Expected(rcon.served, ExecId("wb"))))

\* C26: the same of responses whose terminator is among the first
\* EXEC_FRAMES packets
C26_EveryBodyInTenFrames ==
    (bot = "wb" /\ rcon.pc = "done" /\ rcon.result.ok /\ rcon.served # <<>>
     /\ Len(rcon.served) <= EXEC_FRAMES)
        => rcon.result.text
              = strip(join(C26_Expected(rcon.served, ExecId("wb"))))

\* ---------------------------------------------------------------------
\* Recovery from a deleted webhook message (SpecPublish)
\* ---------------------------------------------------------------------
\* the message id the running bot has stored after the step
C27_StoredAfter ==
    IF bot = "wb" THEN mem_wb'.webhook_message_id ELSE mem_tb'.message_id_time

\* C27: an iteration whose PATCH is answered 404 does not keep the id of
\* the deleted message: it ends with no id stored, or with the id of a
\* message it has posted and that exists.
C27_ResetOn404 ==
    [][pub'.requests.patch = "404"
          => \/ C27_StoredAfter = NoId
             \/ /\ pub'.requests.post = "ok"
                /\ C27_StoredAfter \in pub'.messages
                /\ C27_StoredAfter \notin pub.used]_vars

\* C27: the same of the time bot alone
C27_ResetOn404_tb ==
    [][(bot = "tb" /\ pub'.requests.patch = "404")
          => \/ C27_StoredAfter = NoId
             \/ /\ pub'.requests.post = "ok"
                /\ C27_StoredAfter \in pub'.messages
                /\ C27_StoredAfter \notin pub.used]_vars

\* ---------------------------------------------------------------------
\* The ten-minute buckets of the time bot (SpecPublish)
\* ---------------------------------------------------------------------
\* the step has sent a request to the time webhook
C28_Updated == pub'.requests.patch # "none" \/ pub'.requests.post # "none"

\* the minute of day the iteration observes, and its bucket
C28_Minute == PubTimes[pub.at][3]

C28_Bucket == <<PubTimes[pub.at][1], PubTimes[pub.at][2], C28_Minute \div 10>>

PLAYERS_POLL_SECONDS == 15

VC_MIN_EDIT_INTERVAL == 60

MaxPolls == 6         \* cycles of status_loop that are followed

\* player_current as Nitrado reports it
NitradoCounts == {2}

\* str.lower() on the letters of the model's texts
lower(ch) ==
    IF ch = "A" THEN "a" ELSE IF ch = "B" THEN "b"
    ELSE IF ch = "X" THEN "x" ELSE ch

\* the first index from i at which pat occurs in text, 0 if none
RECURSIVE find(_, _, _)
find(text, pat, i) ==
    IF i + Len(pat) - 1 > Len(text) THEN 0
    ELSE IF SubSeq(text, i, i + Len(pat) - 1) = pat THEN i
    ELSE find(text, pat, i + 1)

\* str.splitlines()
RECURSIVE splitlines(_)
splitlines(text) ==
    IF text = <<>> THEN <<>>
    ELSE CHOOSE out \in
           {IF i = 0 THEN <<text>>
            ELSE <<SubSeq(text, 1, i - 1)>>
                    \o splitlines(SubSeq(text, i + 1, Len(text))) :
            i \in {find(text, <<"\n">>, 1)}} : TRUE

\* the names that are lines of the console, not players
NotPlayers ==
    {<<"e", "x", "e", "c", "u", "t", "i", "n", "g">>,
     <<"l", "i", "s", "t", "p", "l", "a", "y", "e", "r", "s">>,
     <<"d", "o", "n", "e">>}

\* the name of one line of the output, <<>> if the line gives none
player_name(line) ==
    LET stripped == strip(line)
        dot == find(stripped, <<".", " ">>, 1)
        rest == IF dot # 0 THEN SubSeq(stripped, dot + 2, Len(stripped))
                ELSE stripped
        comma == find(rest, <<",">>, 1)
        name == IF comma # 0 THEN strip(SubSeq(rest, 1, comma - 1))
                ELSE strip(rest)
    IN  IF stripped = <<>> THEN <<>>
        ELSE IF [i \in DOMAIN name |-> lower(name[i])] \in NotPlayers
        THEN <<>>
        ELSE name

\* parse_listplayers(output): the list of names
RECURSIVE players_of(_)
players_of(lines) ==
    IF lines = <<>> THEN <<>>
    ELSE IF player_name(Head(lines)) = <<>> THEN players_of(Tail(lines))
    ELSE <<player_name(Head(lines))>> \o players_of(Tail(lines))

parse_listplayers(output) == players_of(splitlines(output))

\* (count, online, rcon_ok) of update_players, given what Nitrado reported
\* and how rcon_command("ListPlayers") ended
update_players(nitrado, result) ==
    LET rcon_ok == result.ok
        names == IF rcon_ok THEN parse_listplayers(result.text) ELSE <<>>
    IN  [polled |-> TRUE,
         count |-> IF rcon_ok THEN Len(names) ELSE nitrado.count,
         online |-> nitrado.online \/ rcon_ok,
         rcon_ok |-> rcon_ok]

\* update_players that counts the names also when the call has failed
update_players_rcon_only(nitrado, result) ==
    [polled |-> TRUE, count |-> 0,
     online |-> nitrado.online \/ result.ok, rcon_ok |-> result.ok]

\* f"{emoji} Solunaris | {count}/{PLAYER_CAP}", as what it is formatted from
vc_name(online, count) == <<IF online THEN "green" ELSE "red", count>>

\* maybe_update_vc that remembers the name before the throttle
maybe_update_vc_early(v, online, count, channel_found, edit) ==
    LET new_name == vc_name(online, count)
        asked == [v EXCEPT !.desired = new_name, !.channel = channel_found,
                           !.throttled = FALSE, !.request = "none"]
    IN  IF ~channel_found THEN asked
        ELSE IF new_name = v.last_vc_name THEN asked
        ELSE IF v.clock - v.last_vc_edit_ts < VC_MIN_EDIT_INTERVAL
        THEN [asked EXCEPT !.throttled = TRUE, !.suppressed = new_name,
                           !.last_vc_name = new_name]
        ELSE IF edit = "ok"
        THEN [asked EXCEPT !.last_vc_name = new_name,
                           !.last_vc_edit_ts = v.clock,
                           !.name = new_name, !.request = "ok"]
        ELSE [asked EXCEPT !.request = edit]

\* maybe_update_vc(emoji, count) at time.time() = v.clock; edit is how
\* vc.edit ends: "ok", "HTTPException" (caught) or "error" (any other
\* exception, which leaves the function)
maybe_update_vc(v, online, count, channel_found, edit) ==
    LET new_name == vc_name(online, count)
        asked == [v EXCEPT !.desired = new_name, !.channel = channel_found,
                           !.throttled = FALSE, !.request = "none"]
    IN  IF ~channel_found THEN asked
        ELSE IF new_name = v.last_vc_name THEN asked
        ELSE IF v.clock - v.last_vc_edit_ts < VC_MIN_EDIT_INTERVAL
        THEN [asked EXCEPT !.throttled = TRUE, !.suppressed = new_name]
        ELSE IF edit = "ok"
        THEN [asked EXCEPT !.last_vc_name = new_name,
                           !.last_vc_edit_ts = v.clock,
                           !.name = new_name, !.request = "ok"]
        ELSE [asked EXCEPT !.request = edit]

\* the time bot has started: time.time() is far from 0.0
InitStatus ==
    /\ now = Zero
    /\ state_wb = None /\ file_wb = None
    /\ state_tb = None /\ file_tb = None
    /\ info = None /\ snap = None
    /\ calls = 0
    /\ bot = "tb"
    /\ config = [time_channel |-> TRUE, announce_channel |-> TRUE]
    /\ InitBots
    /\ rates = ShippedRates
    /\ run = NoRun
    /\ rcon = NoRcon
    /\ wire = NoWire
    /\ tasks = NoTasks
    /\ pub = NoPub
    /\ vc = [NoVc EXCEPT !.clock = 10 * VC_MIN_EDIT_INTERVAL]

\* status_loop starts a cycle: update_players awaits get_server_status;
\* the request answers, or it raises and nothing catches it
status_cycle_begins ==
    /\ vc.phase = "due"
    /\ vc.polls < MaxPolls
    /\ \E answered \in BOOLEAN, online \in BOOLEAN, count \in NitradoCounts :
          vc' = IF answered
                THEN [vc EXCEPT !.phase = "rcon", !.polls = @ + 1,
                                !.nitrado = [online |-> online,
                                             count |-> count]]
                ELSE [vc EXCEPT !.phase = "stopped", !.polls = @ + 1]
    /\ rcon' = NoRcon
    /\ UNCHANGED <<clock_vars, bot_vars, config_vars, io_vars, pub>>

\* update_players calls rcon_command("ListPlayers")
rcon_called == vc.phase = "rcon" /\ rcon.pc = "idle" /\ rcon_auth_tb

\* rcon_command has ended: update_players computes the status and sends
\* the players webhook (a failed request ends the task), maybe_update_vc
\* renames the channel, the task sleeps PLAYERS_POLL_SECONDS
status_cycle_ends ==
    /\ vc.phase = "rcon"
    /\ rcon.pc = "done"
    /\ \E posted \in BOOLEAN, channel_found \in BOOLEAN,
          edit \in {"ok", "HTTPException", "error"} :
          \E st \in {update_players(vc.nitrado, rcon.result)} :
             IF ~posted
             THEN vc' = [vc EXCEPT !.status = st, !.phase = "stopped",
                                   !.throttled = FALSE, !.request = "none"]
             ELSE \E v \in {maybe_update_vc([vc EXCEPT !.status = st],
                                             st.online, st.count,
                                             channel_found, edit)} :
                     vc' = IF v.request = "error"
                           THEN [v EXCEPT !.phase = "stopped"]
                           ELSE [v EXCEPT
                                   !.phase = "due",
                                   !.clock = @ + PLAYERS_POLL_SECONDS]
    /\ UNCHANGED <<clock_vars, bot_vars, config_vars, rcon_vars, io_vars, pub>>

NextStatus ==
    \/ status_cycle_begins
    \/ rcon_called
    \/ server_auth_reply
    \/ server_exec_reply
    \/ server_late_reply
    \/ server_hangup
    \/ rcon_auth_read_tb
    \/ rcon_exec_read_tb
    \/ status_cycle_ends

SpecStatus == InitStatus /\ [][NextStatus]_vars

\* how rcon_command("ListPlayers") can end, as update_players sees it: no
\* player, one player, or an exception
ListPlayersResults == {Returned(<<>>), Returned(<<"a">>), Raised("connect")}

\* the RCON call of the cycle as one step, from the call to its end
rcon_command_returns ==
    /\ vc.phase = "rcon"
    /\ rcon.pc = "idle"
    /\ \E res \in ListPlayersResults :
          rcon' = IF res.ok
                  THEN [NoRcon EXCEPT !.pc = "done", !.conn = "closed",
                                      !.result = res]
                  ELSE [NoRcon EXCEPT !.pc = "done", !.result = res]
    /\ UNCHANGED <<clock_vars, bot_vars, config_vars, io_vars, pub_vars>>

NextVc ==
    \/ status_cycle_begins
    \/ rcon_command_returns
    \/ status_cycle_ends

SpecVc == InitStatus /\ [][NextVc]_vars

\* asyncio runs status_loop whenever it is ready: its sleep ends, and
\* rcon_command ends by an answer, by the end of the stream or by its
\* timeouts
SpecVcFair ==
    /\ SpecVc
    /\ WF_vars(status_cycle_begins)
    /\ WF_vars(rcon_command_returns)
    /\ WF_vars(status_cycle_ends)

\* the step is a call of maybe_update_vc
C29_Call == vc.phase = "rcon" /\ vc'.phase # "rcon" /\ vc'.desired # NoTuple
            /\ vc'.status.polled /\ vc'.clock >= vc.clock
            /\ (vc'.phase = "stopped" => vc'.request = "error")

\* the time.time() of the last poll that is followed
C29_Horizon == 10 * VC_MIN_EDIT_INTERVAL + (MaxPolls - 1) * PLAYERS_POLL_SECONDS

\* the throttle has suppressed a change of name and the throttle's window
\* ends while polls are followed
C29_Suppressed ==
    /\ vc.phase = "due" /\ vc.throttled /\ vc.desired = vc.suppressed
    /\ vc.last_vc_edit_ts + VC_MIN_EDIT_INTERVAL <= C29_Horizon

\* the suppressed change is applied, or a condition of the claim has
\* failed: the desired name is another one, a rename has failed, the
\* channel is not found, or status_loop has ended
C29_Settled ==
    \/ vc.name = vc.suppressed
    \/ vc.desired # vc.suppressed
    \/ vc.request \in {"HTTPException", "error"}
    \/ ~vc.channel
    \/ vc.phase = "stopped"

\* C29: maybe_update_vc issues no rename when the new name is the name last
\* applied; a rename succeeds only VC_MIN_EDIT_INTERVAL seconds or more
\* after the previous successful one; a failed rename leaves last_vc_name
\* and last_vc_edit_ts as they were, and so does the throttle, which acts
\* only inside the interval; and a change suppressed by the throttle is
\* applied by a later poll if the desired name stays the same and the
\* rename succeeds.
C29_Throttle ==
    /\ [][C29_Call =>
            /\ vc'.request # "none" => vc'.desired # vc.name
            /\ vc'.request = "ok"
                  => /\ vc.clock - vc.last_vc_edit_ts >= VC_MIN_EDIT_INTERVAL
                     /\ vc'.last_vc_edit_ts = vc.clock
                     /\ vc'.name = vc'.desired
                     /\ vc'.last_vc_name = vc'.name
            /\ vc'.request # "ok"
                  => /\ vc'.last_vc_name = vc.last_vc_name
                     /\ vc'.last_vc_edit_ts = vc.last_vc_edit_ts
                     /\ vc'.name = vc.name
            /\ vc'.throttled
                  => vc.clock - vc.last_vc_edit_ts < VC_MIN_EDIT_INTERVAL]_vars
    /\ C29_Suppressed ~> C29_Settled

\* a change that the throttle had suppressed has been applied by a later
\* poll, VC_MIN_EDIT_INTERVAL seconds after the previous rename
C29_Witness ==
    /\ vc.request = "ok"
    /\ vc.suppressed = vc.name
    /\ vc.last_vc_edit_ts >= 11 * VC_MIN_EDIT_INTERVAL

\* ---------------------------------------------------------------------
\* The count and the online flag of update_players (SpecStatus)
\* ---------------------------------------------------------------------
\* update_players has computed the status from the RCON call in rcon
C30_Polled == vc.status.polled /\ vc.phase # "rcon" /\ rcon.pc = "done"

\* the ListPlayers call has failed: it could not connect, timed out or
\* met the end of the stream (an exception), or the server has rejected
\* the password with an AUTH_RESPONSE of id -1
C30_RconFailed == ~rcon.result.ok \/ rcon.auth_reply = 0 - 1

\* C30: the count reported is the Nitrado count if and only if the
\* ListPlayers call has failed, and the number of names parsed from the
\* response otherwise; the server is reported online if Nitrado says so or
\* the call has succeeded.
C30_FallbackIffFailed ==
    C30_Polled
        => /\ C30_RconFailed
                => (~vc.status.rcon_ok /\ vc.status.count = vc.nitrado.count)
           /\ ~C30_RconFailed
                => /\ vc.status.rcon_ok
                   /\ vc.status.count
                         = Len(parse_listplayers(rcon.result.text))
           /\ vc.status.online = (vc.nitrado.online \/ ~C30_RconFailed)

\* C30: the same with the failures that rcon_command reports by an
\* exception
C30_FallbackIffRaised ==
    C30_Polled
        => /\ ~rcon.result.ok
                => (~vc.status.rcon_ok /\ vc.status.count = vc.nitrado.count)
           /\ rcon.result.ok
                => /\ vc.status.rcon_ok
                   /\ vc.status.count
                         = Len(parse_listplayers(rcon.result.text))
           /\ vc.status.online = (vc.nitrado.online \/ rcon.result.ok)

====
